---------------------------- MODULE Spec2Model ----------------------------
(***************************************************************************)
(* A model of CLIProgress, the Robot Framework listener that renders live  *)
(* progress in a three-line box and records a deferred keyword trace.      *)
(*                                                                         *)
(*   TraceStack      the deferred-header trace stack                       *)
(*   CLIProgress     the progress box renderer and the event handlers      *)
(*                                                                         *)
(* Strings are sequences of one-character strings.  A trace is a sequence  *)
(* of lines; a line is a record [ind, body]: ind is the number of leading  *)
(* spaces TraceStack._indent put in front of it, body is what follows.     *)
(***************************************************************************)
EXTENDS Integers, Sequences, FiniteSets, TLC

VARIABLES
    verbosity,          \* CLIProgress.verbosity: "QUIET", "NORMAL" or "DEBUG"
    colors,             \* CLIProgress.colors
    stats,              \* CLIProgress.stats : TestStatistics
    timings,            \* CLIProgress.timings : TestTimings
    suite_trace_stack,  \* CLIProgress.suite_trace_stack : TraceStack
    now,                \* the clock time.time() reads, in seconds
    host,               \* the host engine: what is open, what it may send next
    progress_stream,    \* CLIProgress.progress_stream: "STDOUT", "STDERR" or NoStream
    terminal_width,     \* CLIProgress.terminal_width
    progress_lines,     \* CLIProgress.progress_lines: the three line buffers
    test_trace_stack,   \* CLIProgress.test_trace_stack : TraceStack
    term,               \* the terminal: box state, cursor, rows of the box
    out,                \* what the last call wrote, operation by operation
    fault,              \* exception raised by the last call, or "none"
    hist,               \* history of the calls made on the stack under test
    call                \* SpecLine: the arguments of the call under test

\* the renderer's own state and the terminal it writes to
boxVars == <<progress_stream, terminal_width, progress_lines, term, out>>

\* what only the event handlers use
appVars == <<verbosity, colors, stats, timings, suite_trace_stack, now, host>>

vars == <<verbosity, colors, stats, timings, suite_trace_stack, now, host,
          progress_stream, terminal_width, progress_lines, test_trace_stack,
          term, out, fault, hist, call>>

\* None where a number is expected (counts and times are never negative)
None == -1

\* progress_stream when console_progress names no stream
NoStream == "NONE"

\* no colour: colours are off, or the code picked none
NoColor == "none"

\* no call has been drawn for SpecLine
NoCall == [done |-> FALSE, line_no |-> 0, left_text |-> <<>>,
           right_text |-> <<>>]

Min(a, b) == IF a < b THEN a ELSE b

Max(a, b) == IF a > b THEN a ELSE b

(***************************************************************************)
(* Bounds of the model.                                                    *)
(***************************************************************************)
\* SpecStack starts from a stack on which 0..MaxStartDepth keywords are open.
MaxStartDepth == 21

\* SpecStack makes at most MaxOps calls on the stack.
MaxOps == 4

\* SpecLine draws terminal_width from 4..MaxWidth, left_text with up to
\* MaxLeft characters and right_text with up to MaxRight characters.
MaxWidth == 12

MaxLeft == 10

MaxRight == 6

\* Spec: the host sends at most MaxEvents events, opens at most MaxSuiteDepth
\* suites and MaxKwDepth keywords inside one another, and the clock advances
\* at most MaxTime seconds; the terminal is SpecWidth columns wide.
MaxEvents == 7

MaxSuiteDepth == 2

MaxKwDepth == 2

MaxTime == 1

SpecWidth == 40

\* SpecQuiet: the host sends at most MaxQuietEvents events.
MaxQuietEvents == 6

\* SpecLog: the host opens one suite, one test at a time and up to
\* MaxLogDepth keywords inside one another; log messages and ending events
\* are sent while the slack of the run (see HostSlack) is below MaxLogSlack.
MaxLogDepth == 21

\* SpecRun: the suite holds at most MaxRunTests tests and the host sends at
\* most MaxRunEvents events.
MaxRunTests == 2

MaxRunEvents == 9

MaxLogSlack == 2

\* SpecStats: the host sends at most MaxStatsEvents suite and test events;
\* a suite descriptor has up to MaxChildSuites child suites and up to
\* MaxTestCount tests.
MaxStatsEvents == 6

MaxChildSuites == 2

MaxTestCount == 2

\* SpecScope: the host sends at most MaxScopeEvents events.
MaxScopeEvents == 7

\* SpecEta: format_eta is called with up to MaxCompleted completed tests, a
\* total of up to MaxTotal tests and up to MaxElapsed seconds elapsed.
MaxCompleted == 5

MaxTotal == 15

MaxElapsed == 20

\* SpecTime: format_time is called with 0..MaxSeconds seconds.
MaxSeconds == 3700

(***************************************************************************)
(* TraceStack                                                              *)
(***************************************************************************)
\* min(self._depth, 20)
IndentCap == 20

\* TraceStack.__init__
TraceStackNew ==
    [trace |-> <<>>, depth |-> 0, stack |-> <<>>,
     has_warnings |-> FALSE, has_errors |-> FALSE]

\* TraceStack.clear
clear_keeps_flags(s) == [s EXCEPT !.trace = <<>>, !.depth = 0, !.stack = <<>>]

clear(s) ==
    [s EXCEPT !.trace = <<>>, !.depth = 0, !.stack = <<>>,
              !.has_warnings = FALSE, !.has_errors = FALSE]

\* TraceStack._indent, as a number of spaces: "  " * min(self._depth, 20).
\* A negative repeat count gives the empty string.
IndentNoCap(s) == 2 * Max(0, s.depth)

indent(s) == 2 * Max(0, Min(s.depth, IndentCap))

\* self._indent + text, as one line
Indented(s, text) == [ind |-> indent(s), body |-> text]

\* TraceStack.push_keyword
push_keyword_in_front(s, keyword_line) ==
    [s EXCEPT !.stack = <<Indented(s, keyword_line)>> \o @,
              !.depth = @ + 1]

push_keyword(s, keyword_line) ==
    [s EXCEPT !.stack = Append(@, Indented(s, keyword_line)),
              !.depth = @ + 1]

\* list.pop() raises IndexError on an empty list
PopRaises(s) == s.stack = <<>>

\* TraceStack.pop_keyword, when list.pop() does not raise
pop_keyword_wrong_order(s) ==
    [s EXCEPT !.stack = SubSeq(@, 2, Len(@)), !.depth = @ - 1]

pop_keyword(s) ==
    [s EXCEPT !.stack = SubSeq(@, 1, Len(@) - 1), !.depth = @ - 1]

\* TraceStack.append_trace.  trace_line is given as the sequence of its
\* lines (the text split at its newlines): the indent goes in front of the
\* text, so in front of its first line only.
append_trace(s, trace_line) ==
    [s EXCEPT !.trace = @ \o <<Indented(s, trace_line[1])>>
                          \o [i \in 1..(Len(trace_line) - 1) |->
                                 [ind |-> 0, body |-> trace_line[i + 1]]]]

\* TraceStack.flush
flush_keeps_pending(s, decrement_depth) ==
    [s EXCEPT !.depth = IF decrement_depth THEN @ - 1 ELSE @,
              !.trace = @ \o s.stack]

flush_to_zero(s, decrement_depth) ==
    [s EXCEPT !.depth = IF decrement_depth THEN 0 ELSE @,
              !.trace = @ \o s.stack,
              !.stack = <<>>]

flush(s, decrement_depth) ==
    [s EXCEPT !.depth = IF decrement_depth THEN @ - 1 ELSE @,
              !.trace = @ \o s.stack,
              !.stack = <<>>]

(***************************************************************************)
(* Strings                                                                 *)
(***************************************************************************)
\* c * n
Rep(c, n) == [i \in 1..Max(0, n) |-> c]

Spaces(n) == Rep(" ", n)

\* text[:n], Python's slice: a negative n counts from the end
SliceTo(text, n) ==
    IF n >= 0 THEN SubSeq(text, 1, Min(n, Len(text)))
    ELSE SubSeq(text, 1, Max(0, Len(text) + n))

\* f"{text:<{w}.{w}}": truncated to w characters, then padded to w
FormatFixed(text, w) == SliceTo(text, w) \o Spaces(w - Len(SliceTo(text, w)))

Ellipsis == <<".", ".", ".">>

(***************************************************************************)
(* The terminal.  Rows are counted from the top border of the box drawn    *)
(* last: rows 0 and 4 are the borders, rows 1..3 the content rows.         *)
(***************************************************************************)
BoxRows == 5

TermNew ==
    [box |-> "undrawn", row |-> 0, col |-> 0,
     screen |-> [r \in 0..(BoxRows - 1) |-> <<>>],
     cleared |-> <<>>]      \* the rows CLEAR_LINE was written on, in order

\* ANSI.Cursor.UP / DOWN / HOME / CLEAR_LINE and plain text, as the terminal
\* acts on them
CursorUp(t, n) == [t EXCEPT !.row = @ - n]

CursorDownShort(t, n) == [t EXCEPT !.row = @ + n - 1]

CursorDown(t, n) == [t EXCEPT !.row = @ + n]

CursorHome(t) == [t EXCEPT !.col = 0]

ClearLine(t) ==
    IF t.row \in DOMAIN t.screen
      THEN [t EXCEPT !.screen[t.row] = <<>>, !.cleared = Append(@, t.row)]
      ELSE [t EXCEPT !.cleared = Append(@, t.row)]

\* text without a newline, written at the cursor over what the row shows
PutText(t, text) ==
    LET old == IF t.row \in DOMAIN t.screen THEN t.screen[t.row] ELSE <<>>
        new == SubSeq(old, 1, Min(t.col, Len(old)))
                 \o Spaces(t.col - Len(old)) \o text
                 \o SubSeq(old, t.col + Len(text) + 1, Len(old))
    IN  [t EXCEPT !.col = @ + Len(text),
                  !.screen = IF t.row \in DOMAIN t.screen
                               THEN [@ EXCEPT ![t.row] = new] ELSE @]

NewLine(t) == [t EXCEPT !.row = @ + 1, !.col = 0]

(***************************************************************************)
(* CLIProgress: the progress box.  A renderer state r is a record          *)
(* [lines, term, out]: progress_lines, the terminal, and the operations    *)
(* written so far by the running call.                                     *)
(***************************************************************************)
\* top and bottom border, "+" for the corners, "-" for the horizontal bar
Border(w) == <<"+">> \o Rep("-", w - 2) \o <<"+">>

\* f"│ {text} │", "|" for the vertical bar
BoxRow(text) == <<"|", " ">> \o text \o <<" ", "|">>

\* the five rows _draw_progress_box writes
DrawnRows(lines) ==
    [r \in 0..(BoxRows - 1) |->
        IF r \in {0, BoxRows - 1} THEN Border(terminal_width)
        ELSE BoxRow(FormatFixed(lines[r], terminal_width - 4))]

\* CLIProgress._draw_progress_box: four rows, each ending in a newline, then
\* the bottom border without one.  The rows are counted from the row the
\* top border is written on, the one the cursor is on.
RECURSIVE WriteRows(_, _, _)
WriteRows(t, rows, k) ==
    IF k = BoxRows - 1 THEN PutText(t, rows[k])
    ELSE WriteRows(NewLine(PutText(t, rows[k])), rows, k + 1)

draw_progress_box(r) ==
    IF r.stream = NoStream THEN r
    ELSE [r EXCEPT
            !.term = WriteRows([box |-> "drawn", row |-> 0,
                                col |-> r.term.col,
                                screen |-> TermNew.screen,
                                cleared |-> <<>>],
                               DrawnRows(r.lines), 0),
            !.out = Append(@, [op |-> "draw", rows |-> DrawnRows(r.lines)])]

\* CLIProgress._clear_progress_box: CLEAR_LINE + UP four times, then
\* CLEAR_LINE + HOME
RECURSIVE ClearUp(_, _)
ClearUp(t, n) ==
    IF n = 0 THEN t ELSE ClearUp(CursorUp(ClearLine(t), 1), n - 1)

clear_progress_box_three_up(r) ==
    IF r.stream = NoStream THEN r
    ELSE LET t == CursorHome(ClearLine(ClearUp(r.term, 3)))
         IN  [r EXCEPT
                !.term = [t EXCEPT !.box = "erased"],
                !.out = Append(@, [op |-> "erase", row |-> t.row,
                                   col |-> t.col, from |-> r.term.row,
                                   cleared |-> t.cleared,
                                   screen |-> t.screen])]

clear_progress_box(r) ==
    IF r.stream = NoStream THEN r
    ELSE LET t == CursorHome(ClearLine(ClearUp(r.term, 4)))
         IN  [r EXCEPT
                !.term = [t EXCEPT !.box = "erased"],
                !.out = Append(@, [op |-> "erase", row |-> t.row,
                                   col |-> t.col, from |-> r.term.row,
                                   cleared |-> t.cleared,
                                   screen |-> t.screen])]

\* CLIProgress._write_progress_line, lines 409-419: the row's text
ProgressTextNoFloor(left_text, right_text) ==
    LET text_width == terminal_width - 4
        right_len  == Len(right_text)
        max_left   == Max(0, IF right_len > 0 THEN text_width - right_len
                                              ELSE text_width)
        left == IF Len(left_text) > max_left
                  THEN IF max_left >= 3
                         THEN SliceTo(left_text, max_left - 3) \o Ellipsis
                         ELSE SliceTo(left_text, max_left)
                  ELSE left_text
        padding == Max(0, text_width - Len(left) - right_len)
    IN  left \o Spaces(padding) \o right_text

ProgressText(left_text, right_text) ==
    LET text_width == terminal_width - 4
        right_len  == Len(right_text)
        max_left   == Max(0, IF right_len > 0 THEN text_width - right_len - 1
                                              ELSE text_width)
        left == IF Len(left_text) > max_left
                  THEN IF max_left >= 3
                         THEN SliceTo(left_text, max_left - 3) \o Ellipsis
                         ELSE SliceTo(left_text, max_left)
                  ELSE left_text
        padding == Max(0, text_width - Len(left) - right_len)
    IN  left \o Spaces(padding) \o right_text

\* CLIProgress._write_progress_line (line_no in 0..2, as the assert demands;
\* progress_lines is indexed from 1 here)
write_progress_line(r, line_no, left_text, right_text) ==
    IF r.stream = NoStream THEN r
    ELSE LET text == ProgressText(left_text, right_text)
             line_offset == 3 - line_no
             t1 == CursorUp(r.term, line_offset)
             t2 == PutText(CursorHome(t1), BoxRow(text))
             t3 == CursorDown(t2, line_offset)
         IN  [r EXCEPT
                !.lines[line_no + 1] = text,
                !.term = t3,
                !.out = Append(@, [op |-> "update", line_no |-> line_no,
                                   text |-> text, row |-> t2.row,
                                   box |-> r.term.box])]

\* CLIProgress._writeln: text + "\n" on sys.stdout; nlines is the number of
\* lines of text
writeln(r, text, nlines) ==
    [r EXCEPT
        !.term = [@ EXCEPT !.row = @ + nlines, !.col = 0],
        !.out = Append(@, [op |-> "writeln", text |-> text,
                           box |-> r.term.box])]

\* CLIProgress._print_trace
print_trace_needs_stream(r, text, nlines) ==
    IF r.stream = NoStream THEN r
    ELSE draw_progress_box(writeln(clear_progress_box(r), text, nlines))

print_trace_no_redraw(r, text, nlines) ==
    writeln(clear_progress_box(r), text, nlines)

print_trace_late_erase(r, text, nlines) ==
    draw_progress_box(clear_progress_box(writeln(r, text, nlines)))

print_trace(r, text, nlines) ==
    draw_progress_box(writeln(clear_progress_box(r), text, nlines))

\* the renderer state a call starts from
Renderer ==
    [lines |-> progress_lines, term |-> term, out |-> <<>>,
     stream |-> progress_stream]

\* CLIProgress.__init__, lines 336 and 349
RendererNew ==
    draw_progress_box([lines |-> <<<<>>, <<>>, <<>>>>, term |-> TermNew,
                       out |-> <<>>, stream |-> progress_stream])

(***************************************************************************)
(* Formatting of numbers                                                   *)
(***************************************************************************)
Digit(d) == <<<<"0">>, <<"1">>, <<"2">>, <<"3">>, <<"4">>, <<"5">>, <<"6">>,
              <<"7">>, <<"8">>, <<"9">>>>[d + 1]

\* str(n) for an integer n
RECURSIVE Decimal(_)
Decimal(n) ==
    IF n < 0 THEN <<"-">> \o Decimal(0 - n)
    ELSE IF n < 10 THEN Digit(n)
    ELSE Decimal(n \div 10) \o Digit(n % 10)

\* f"{n:2d}": right-justified in two columns
Fmt2d(n) == Spaces(2 - Len(Decimal(n))) \o Decimal(n)

\* int(round(num / den)) for den > 0: Python rounds halves to the even integer
RoundDiv(num, den) ==
    LET q == num \div den
        r == num % den
    IN  IF 2 * r < den THEN q
        ELSE IF 2 * r > den THEN q + 1
        ELSE IF q % 2 = 0 THEN q ELSE q + 1

(***************************************************************************)
(* TestStatistics                                                          *)
(***************************************************************************)
\* TestStatistics.__init__
TestStatisticsNew ==
    [top_level_suite_count |-> None, top_level_test_count |-> None,
     started_suites |-> 0, started_tests |-> 0, passed_tests |-> 0,
     skipped_tests |-> 0, failed_tests |-> 0, completed_tests |-> 0,
     warnings |-> 0, errors |-> 0]

\* TestStatistics.start_suite; suite.suites is given by its length
stats_start_suite_relatch(st, suite) ==
    [st EXCEPT
       !.started_suites = @ + 1,
       !.top_level_suite_count = IF suite.suites # 0 THEN suite.suites ELSE 1,
       !.top_level_test_count = suite.test_count]

stats_start_suite(st, suite) ==
    [st EXCEPT
       !.started_suites = @ + 1,
       !.top_level_suite_count =
           IF @ = None THEN (IF suite.suites # 0 THEN suite.suites ELSE 1)
           ELSE @,
       !.top_level_test_count = IF @ = None THEN suite.test_count ELSE @]

\* TestStatistics.start_test
stats_start_test(st) == [st EXCEPT !.started_tests = @ + 1]

\* TestStatistics.end_test
stats_end_test_fail_uncounted(st, result) ==
    IF result.not_run THEN st
    ELSE LET c == [st EXCEPT !.completed_tests = @ + 1]
         IN  IF result.status = "PASS" THEN [c EXCEPT !.passed_tests = @ + 1]
             ELSE IF result.status = "SKIP"
                    THEN [c EXCEPT !.skipped_tests = @ + 1]
             ELSE c

stats_end_test_other_as_failed(st, result) ==
    IF result.not_run THEN st
    ELSE LET c == [st EXCEPT !.completed_tests = @ + 1]
         IN  IF result.status = "PASS" THEN [c EXCEPT !.passed_tests = @ + 1]
             ELSE IF result.status = "SKIP"
                    THEN [c EXCEPT !.skipped_tests = @ + 1]
             ELSE [c EXCEPT !.failed_tests = @ + 1]

stats_end_test_counts_not_run(st, result) ==
    LET c == [st EXCEPT !.completed_tests = @ + 1]
    IN  IF result.status = "PASS" THEN [c EXCEPT !.passed_tests = @ + 1]
        ELSE IF result.status = "FAIL" THEN [c EXCEPT !.failed_tests = @ + 1]
        ELSE IF result.status = "SKIP"
               THEN [c EXCEPT !.skipped_tests = @ + 1]
        ELSE c

stats_end_test(st, result) ==
    IF result.not_run THEN st
    ELSE LET c == [st EXCEPT !.completed_tests = @ + 1]
         IN  IF result.status = "PASS" THEN [c EXCEPT !.passed_tests = @ + 1]
             ELSE IF result.status = "FAIL"
                    THEN [c EXCEPT !.failed_tests = @ + 1]
             ELSE IF result.status = "SKIP"
                    THEN [c EXCEPT !.skipped_tests = @ + 1]
             ELSE c

\* TestStatistics.format_suite_progress
format_suite_progress(st) ==
    Fmt2d(st.started_suites) \o <<"/">> \o Fmt2d(st.top_level_suite_count)

\* TestStatistics.format_test_progress
format_test_progress(st) ==
    Fmt2d(st.started_tests) \o <<"/">> \o Fmt2d(st.top_level_test_count)

\* TestStatistics.format_run_results: the numbers and clauses of the sentence
format_run_results(st) ==
    [kind |-> "RUN COMPLETE",
     tests |-> IF st.top_level_test_count = None THEN 0
               ELSE st.top_level_test_count,
     plural |-> st.top_level_test_count # 1,
     completed |-> st.completed_tests,
     passed |-> st.passed_tests,
     skipped |-> st.skipped_tests,
     failed |-> st.failed_tests,
     errors |-> st.errors,
     warnings |-> st.warnings]

(***************************************************************************)
(* TestTimings                                                             *)
(***************************************************************************)
\* TestTimings.__init__
TestTimingsNew == [run_start_time |-> None, current_test_start_time |-> None]

\* TestTimings._record_run_start, called by start_suite
timings_start_suite(tm) ==
    [tm EXCEPT !.run_start_time = IF @ = None THEN now ELSE @]

\* TestTimings.start_test
timings_start_test(tm) ==
    [timings_start_suite(tm) EXCEPT !.current_test_start_time = now]

\* TestTimings.end_test
timings_end_test(tm) == [tm EXCEPT !.current_test_start_time = None]

Unknown == <<"u", "n", "k", "n", "o", "w", "n">>

\* TestTimings.format_time with the minutes never carried into hours
format_seconds_no_hours(num, den) ==
    LET seconds == RoundDiv(num, den)
        s == seconds % 60
        m == seconds \div 60
    IN  IF m # 0
          THEN Fmt2d(m) \o <<"m", " ">> \o Fmt2d(s) \o <<"s">>
        ELSE Fmt2d(s) \o <<"s">>

\* TestTimings.format_time, lines 258-267, of the number num/den of seconds
\* (den > 0), which may be negative: divmod rounds its quotient down
format_seconds(num, den) ==
    LET seconds == RoundDiv(num, den)
        s == seconds % 60
        m == (seconds \div 60) % 60
        h == (seconds \div 60) \div 60
    IN  IF h # 0
          THEN Fmt2d(h) \o <<"h", " ">> \o Fmt2d(m) \o <<"m", " ">>
                 \o Fmt2d(s) \o <<"s">>
        ELSE IF m # 0
          THEN Fmt2d(m) \o <<"m", " ">> \o Fmt2d(s) \o <<"s">>
        ELSE Fmt2d(s) \o <<"s">>

\* TestTimings.format_time of a time that is None or the number num/den of
\* seconds, num >= 0
format_time(num, den) ==
    IF num = None THEN Unknown ELSE format_seconds(num, den)

\* TestTimings.get_elapsed_time
get_elapsed_time(tm) ==
    IF tm.run_start_time = None THEN 0 ELSE now - tm.run_start_time

\* TestTimings.format_elapsed_time
format_elapsed_time(tm) == format_time(get_elapsed_time(tm), 1)

\* TestTimings.format_eta
format_eta_of_total(tm, st) ==
    IF st.completed_tests # 0 /\ st.top_level_test_count \notin {None, 0}
      THEN format_seconds(get_elapsed_time(tm) * st.top_level_test_count,
                          st.completed_tests)
      ELSE Unknown

format_eta(tm, st) ==
    IF st.completed_tests # 0 /\ st.top_level_test_count \notin {None, 0}
      THEN format_seconds(get_elapsed_time(tm)
                            * (st.top_level_test_count - st.completed_tests),
                          st.completed_tests)
      ELSE Unknown

(***************************************************************************)
(* CLIProgress: configuration                                              *)
(***************************************************************************)
\* Verbosity: QUIET = 0, NORMAL = 1, DEBUG = 2
VerbosityValue(v) ==
    CASE v = "QUIET" -> 0 [] v = "NORMAL" -> 1 [] v = "DEBUG" -> 2

\* CLIProgress.__init__, lines 326-330
print_passed == VerbosityValue(verbosity) >= VerbosityValue("DEBUG")

print_skipped == VerbosityValue(verbosity) >= VerbosityValue("DEBUG")

print_warned_debug_only ==
    VerbosityValue(verbosity) >= VerbosityValue("DEBUG")

print_warned == VerbosityValue(verbosity) >= VerbosityValue("NORMAL")

print_errored == VerbosityValue(verbosity) >= VerbosityValue("NORMAL")

print_failed == VerbosityValue(verbosity) >= VerbosityValue("QUIET")

\* CLIProgress.in_test
in_test_since_run_start == timings.run_start_time # None

in_test == timings.current_test_start_time # None

\* ANSI colour applied to a piece of text when colours are on
Colored(color) == IF colors THEN color ELSE NoColor

(***************************************************************************)
(* The host engine (Robot Framework), which sends the events: suites       *)
(* contain tests and suites; keywords nest inside a test or, as setup and  *)
(* teardown, directly inside a suite; close comes last.                    *)
(***************************************************************************)
ScopeNew == [next |-> 1, not_run |-> {}, logged |-> <<>>]

\* the test counters of the Statistics Tracker
TestCounters(st) ==
    [started |-> st.started_tests, completed |-> st.completed_tests,
     passed |-> st.passed_tests, failed |-> st.failed_tests,
     skipped |-> st.skipped_tests]

HostNew ==
    [suites |-> 0,          \* number of open suites
     in_test |-> FALSE,     \* a test is open
     open |-> <<>>,         \* the open keywords, outermost first
     test |-> ScopeNew,     \* keywords of the open test
     suite |-> ScopeNew,    \* keywords sent outside a test since the last
                            \* suite-start or suite-end
     events |-> 0,          \* number of events sent
     closed |-> FALSE,
     last |-> "init",       \* the last event sent
     started |-> 0,         \* number of suites started
     tests |-> 0,           \* number of tests started
     results |-> <<>>,      \* the status each test ended with, in order
     before |-> TestCounters(TestStatisticsNew),
                            \* the test counters before the last test-start
     ran |-> <<>>,          \* for each open suite, outermost first, the
                            \* number of keywords that ran directly in it
     printed |-> <<>>]      \* the trace blocks on the normal output so far

\* the variables of the event handlers while another specification runs
AppIdle ==
    /\ verbosity = "NORMAL"
    /\ colors = FALSE
    /\ stats = TestStatisticsNew
    /\ timings = TestTimingsNew
    /\ suite_trace_stack = TraceStackNew
    /\ now = 0
    /\ host = HostNew

\* the trace blocks among the operations written by a call: kind, status
\* and name of each
RECURSIVE Blocks(_)
Blocks(ops) ==
    IF ops = <<>> THEN <<>>
    ELSE (IF ops[1].op = "writeln" /\ ops[1].text.kind \in {"TEST", "SUITE"}
            THEN <<[kind |-> ops[1].text.kind, status |-> ops[1].text.status,
                    name |-> ops[1].text.name]>>
            ELSE <<>>) \o Blocks(Tail(ops))

\* the host's record of an event sent, and of what the call printed
Sent(h, event) ==
    [h EXCEPT !.events = @ + 1, !.last = event,
              !.printed = @ \o Blocks(out')]

\* the name of the k-th keyword of a scope
KwName(k) == <<"K">> \o Decimal(k)

\* the result object of keyword k: no library, no arguments
KwResult(k) == [kwname |-> KwName(k), libname |-> <<>>, args |-> <<>>]

SuiteName == <<"S">>

\* the name of the k-th test of the run
TestName(k) == <<"T">> \o Decimal(k)

(***************************************************************************)
(* CLIProgress: the event handlers.  Each action is one handler call; the  *)
(* stack it works on is chosen by in_test, as in the code.                 *)
(***************************************************************************)
\* the number of terminal rows a trace takes
TraceRows(trace) == Len(trace)

\* the state the renderer is left in by a call
Rendered(r) ==
    /\ progress_lines' = r.lines
    /\ term' = r.term
    /\ out' = r.out

cfgVars == <<verbosity, colors, progress_stream, terminal_width>>

\* f"[SUITE {self.stats.format_suite_progress()}] {suite.full_name}"
SuiteLine(st, suite) ==
    <<"[", "S", "U", "I", "T", "E", " ">> \o format_suite_progress(st)
        \o <<"]", " ">> \o suite.full_name

\* CLIProgress.start_suite: what it writes, from the renderer state r
RenderStartSuite(r, suite) ==
    write_progress_line(r, 0, SuiteLine(stats_start_suite(stats, suite), suite),
                        <<>>)

\* CLIProgress.start_suite
StartSuite(suite) ==
    /\ stats' = stats_start_suite(stats, suite)
    /\ timings' = timings_start_suite(timings)
    /\ suite_trace_stack' = clear(suite_trace_stack)
    /\ Rendered(RenderStartSuite(Renderer, suite))
    /\ fault' = "none"
    /\ UNCHANGED <<test_trace_stack, cfgVars, now, hist, call>>

\* the text end_suite and end_test print: status line, underline, trace
TraceText(kind, status, with_errors, with_warnings, color, name, trace) ==
    [kind |-> kind, status |-> status, with_errors |-> with_errors,
     with_warnings |-> with_warnings, color |-> color, name |-> name,
     trace |-> trace]

\* CLIProgress.end_suite: what it writes, from the renderer state r
RenderEndSuite(r, suite, result) ==
    LET trace == suite_trace_stack.trace
        r1 == write_progress_line(r, 0, <<>>, <<>>)
        status_text ==
            IF trace = <<>> THEN [status |-> "", color |-> NoColor]
            ELSE IF result.status = "PASS" /\ print_passed
              THEN [status |-> "SUITE PASSED", color |-> Colored("GREEN")]
            ELSE IF result.status = "SKIP" /\ print_skipped
              THEN [status |-> "SUITE SKIPPED", color |-> Colored("YELLOW")]
            ELSE IF result.status = "FAIL" /\ print_failed
              THEN [status |-> "SUITE FAILED", color |-> Colored("RED")]
            ELSE [status |-> "", color |-> NoColor]
        printed == IF trace = <<>> THEN <<[ind |-> 0, body |-> result.message]>>
                   ELSE trace
    IN  IF status_text.status # ""
          THEN print_trace(r1,
                   TraceText("SUITE", status_text.status, FALSE, FALSE,
                             status_text.color, suite.full_name, printed),
                   2 + TraceRows(printed) + 1)
          ELSE r1

\* CLIProgress.end_suite
EndSuite(suite, result) ==
    /\ suite_trace_stack' = clear(suite_trace_stack)
    /\ Rendered(RenderEndSuite(Renderer, suite, result))
    /\ fault' = "none"
    /\ UNCHANGED <<stats, timings, test_trace_stack, cfgVars, now, hist, call>>

\* f"[TEST {self.stats.format_test_progress()}] {test.name}"
TestLine(st, test) ==
    <<"[", "T", "E", "S", "T", " ">> \o format_test_progress(st)
        \o <<"]", " ">> \o test.name

\* f"(elapsed {...}, ETA {...})"
ElapsedText(tm, st) ==
    <<"(", "e", "l", "a", "p", "s", "e", "d", " ">>
        \o format_elapsed_time(tm)
        \o <<",", " ", "E", "T", "A", " ">> \o format_eta(tm, st) \o <<")">>

\* CLIProgress.start_test: what it writes, from the renderer state r
RenderStartTest(r, test) ==
    write_progress_line(r, 1, TestLine(stats_start_test(stats), test),
                        ElapsedText(timings_start_test(timings),
                                    stats_start_test(stats)))

\* CLIProgress.start_test
StartTest(test) ==
    /\ stats' = stats_start_test(stats)
    /\ timings' = timings_start_test(timings)
    /\ test_trace_stack' = clear(test_trace_stack)
    /\ Rendered(RenderStartTest(Renderer, test))
    /\ fault' = "none"
    /\ UNCHANGED <<suite_trace_stack, cfgVars, now, hist, call>>

\* CLIProgress.end_test: what it writes, from the renderer state r
RenderEndTest(r, test, result) ==
    LET trace == test_trace_stack.trace
        r1 == write_progress_line(r, 1, <<>>, <<>>)
        by_status ==
            IF result.status = "PASS"
              THEN [print |-> print_passed, color |-> "GREEN"]
            ELSE IF result.status = "SKIP"
              THEN [print |-> print_skipped, color |-> "YELLOW"]
            ELSE IF result.status = "FAIL"
              THEN [print |-> print_failed, color |-> "RED"]
            ELSE [print |-> FALSE, color |-> NoColor]
        by_errors ==
            IF test_trace_stack.has_errors
              THEN [print |-> by_status.print \/ print_errored,
                    color |-> "RED"]
              ELSE by_status
        by_warnings ==
            IF test_trace_stack.has_warnings
              THEN [print |-> by_errors.print \/ print_warned,
                    color |-> "BRIGHT_YELLOW"]
              ELSE by_errors
        should_print == by_warnings.print
        status_color == IF by_warnings.color = NoColor THEN NoColor
                        ELSE Colored(by_warnings.color)
        printed == IF trace = <<>> THEN <<[ind |-> 0, body |-> result.message]>>
                   ELSE trace
    IN  IF ~result.not_run /\ should_print
          THEN print_trace(r1,
                   TraceText("TEST", result.status,
                             test_trace_stack.has_errors,
                             test_trace_stack.has_warnings,
                             status_color, test.full_name, printed),
                   2 + TraceRows(printed) + 1)
          ELSE r1

\* CLIProgress.end_test
EndTest(test, result) ==
    /\ stats' = stats_end_test(stats, result)
    /\ timings' = timings_end_test(timings)
    /\ Rendered(RenderEndTest(Renderer, test, result))
    /\ test_trace_stack' = clear(test_trace_stack)
    /\ fault' = "none"
    /\ UNCHANGED <<suite_trace_stack, cfgVars, now, hist, call>>

\* the stack a keyword or log event works on
ActiveStack == IF in_test THEN test_trace_stack ELSE suite_trace_stack

\* the active stack becomes s, the other one stays
SetActiveStack(s) ==
    IF in_test
      THEN test_trace_stack' = s /\ UNCHANGED suite_trace_stack
      ELSE suite_trace_stack' = s /\ UNCHANGED test_trace_stack

\* CLIProgress.start_keyword, lines 536-545: name, arguments, header; an
\* absent or empty name or library is <<>>
KeywordName(result) ==
    IF result.kwname # <<>> THEN result.kwname
    ELSE <<"<", "u", "n", "k", "n", "o", "w", "n", ">">>

KeywordHeader(result) ==
    [kind |-> "header", lib |-> result.libname, name |-> KeywordName(result),
     args |-> result.args]

\* f"[{name}]  {argstr}", argstr being the joined arguments
KeywordLine(result) ==
    <<"[">> \o KeywordName(result) \o <<"]", " ", " ">> \o result.args

\* CLIProgress.start_keyword: what it writes, from the renderer state r
RenderStartKeyword(r, result) ==
    write_progress_line(r, 2, KeywordLine(result), <<>>)

\* CLIProgress.start_keyword
StartKeyword(result) ==
    /\ SetActiveStack(push_keyword(ActiveStack, KeywordHeader(result)))
    /\ Rendered(RenderStartKeyword(Renderer, result))
    /\ fault' = "none"
    /\ UNCHANGED <<stats, timings, cfgVars, now, hist, call>>

\* CLIProgress.end_keyword, lines 562-587: the status line of a keyword
KeywordTrace(result) ==
    LET elapsed == IF result.elapsedtime # None
                     THEN format_time(result.elapsedtime, 1000)
                     ELSE <<"?", "s">>
    IN  IF result.status = "PASS"
          THEN [kind |-> "status", status |-> "PASS",
                color |-> Colored("BRIGHT_GREEN"), elapsed |-> elapsed]
        ELSE IF result.status = "SKIP"
          THEN [kind |-> "status", status |-> "SKIP",
                color |-> Colored("YELLOW"), elapsed |-> elapsed]
        ELSE IF result.status = "FAIL"
          THEN [kind |-> "status", status |-> "FAIL",
                color |-> Colored("BRIGHT_RED"), elapsed |-> elapsed]
        ELSE [kind |-> "status", status |-> "? " \o result.status,
              color |-> NoColor, elapsed |-> elapsed]

\* CLIProgress.end_keyword: what it writes, from the renderer state r;
\* nothing when pop_keyword raises
RenderEndKeyword(r, result) ==
    IF result.status = "NOT RUN" /\ PopRaises(ActiveStack) THEN r
    ELSE write_progress_line(r, 2, <<>>, <<>>)

\* CLIProgress.end_keyword
EndKeyword(result) ==
    /\ IF result.status = "NOT RUN"
         THEN IF PopRaises(ActiveStack)
                THEN /\ fault' = "IndexError"
                     /\ UNCHANGED <<test_trace_stack, suite_trace_stack>>
                ELSE /\ SetActiveStack(pop_keyword(ActiveStack))
                     /\ fault' = "none"
         ELSE /\ SetActiveStack(
                    append_trace(flush(ActiveStack, TRUE),
                                 <<KeywordTrace(result)>>))
              /\ fault' = "none"
    /\ Rendered(RenderEndKeyword(Renderer, result))
    /\ UNCHANGED <<stats, timings, cfgVars, now, hist, call>>

\* CLIProgress.log_message, lines 603-624: the lines of the message.  The
\* text is given as text.splitlines(), an absent or empty text as <<>>; an
\* absent or empty level as "".
MessageColor(level) ==
    CASE level \in {"ERROR", "FAIL"} -> Colored("BRIGHT_RED")
      [] level = "WARN" -> Colored("BRIGHT_YELLOW")
      [] level = "SKIP" -> Colored("YELLOW")
      [] level = "INFO" -> Colored("BRIGHT_BLACK")
      [] level \in {"DEBUG", "TRACE"} -> Colored("WHITE")
      [] OTHER -> NoColor

MessageLines(level, text_lines) ==
    [i \in 1..Len(text_lines) |->
        [kind |-> "log", first |-> (i = 1), level |-> level,
         color |-> MessageColor(level), text |-> text_lines[i]]]

\* CLIProgress.log_message writes nothing
RenderLogMessage(r, message) == r

\* CLIProgress.log_message
LogMessage(message) ==
    LET level == IF message.level # "" THEN message.level ELSE "UNKNOWN"
        text_lines == message.message
        flushed == flush(ActiveStack, FALSE)
        flagged == IF level = "ERROR"
                     THEN [flushed EXCEPT !.has_errors = TRUE]
                   ELSE IF level = "WARN"
                     THEN [flushed EXCEPT !.has_warnings = TRUE]
                   ELSE flushed
    IN  /\ IF text_lines = <<>>
             THEN \* text_lines[0] raises IndexError
                  /\ SetActiveStack(flushed)
                  /\ fault' = "IndexError"
                  /\ UNCHANGED stats
             ELSE /\ SetActiveStack(
                        append_trace(flagged, MessageLines(level, text_lines)))
                  /\ stats' = IF level = "ERROR"
                                THEN [stats EXCEPT !.errors = @ + 1]
                              ELSE IF level = "WARN"
                                THEN [stats EXCEPT !.warnings = @ + 1]
                              ELSE stats
                  /\ fault' = "none"
        /\ Rendered(RenderLogMessage(Renderer, message))
        /\ UNCHANGED <<timings, cfgVars, now, hist, call>>

\* CLIProgress.close: what it writes, from the renderer state r
RenderClose(r) ==
    LET r1 == clear_progress_box(r)
        r2 == IF VerbosityValue(verbosity) >= VerbosityValue("QUIET")
                THEN writeln(r1, format_run_results(stats), 1)
                ELSE r1
        r3 == IF timings.run_start_time # None
                 /\ VerbosityValue(verbosity) >= VerbosityValue("NORMAL")
                THEN writeln(r2, [kind |-> "Total elapsed",
                                  elapsed |-> format_elapsed_time(timings)], 1)
                ELSE r2
    IN  r3

\* CLIProgress.close
Close ==
    /\ Rendered(RenderClose(Renderer))
    /\ fault' = "none"
    /\ UNCHANGED <<stats, timings, test_trace_stack, suite_trace_stack,
                   cfgVars, now, hist, call>>

(***************************************************************************)
(* SpecStack: the TraceStack operations called directly, one at a time,    *)
(* on one stack.  The stack starts as k nested start_keyword calls and a   *)
(* log_message leave it: depth k, the k headers written to the trace.      *)
(***************************************************************************)
Headers == {"A", "B"}

RECURSIVE PushN(_, _)
PushN(s, k) == IF k = 0 THEN s ELSE PushN(push_keyword(s, "A"), k - 1)

StartStacks == {flush(PushN(TraceStackNew, k), FALSE) : k \in 0..MaxStartDepth}

HistNew ==
    [last |-> "none",       \* the last call
     nops |-> 0,            \* number of calls made
     run  |-> 0,            \* length of the run of pushes that ended at `last`
     pre  |-> TraceStackNew,\* the stack before the first push of that run
     bp   |-> TraceStackNew,\* the stack before the most recent push
     hdrs |-> <<>>]         \* the run's headers, each with its push-time depth

\* The history after a call that is not a push: the run of pushes, if one
\* led up to this call, is kept for this one call.
HistAfter(op) ==
    [hist EXCEPT !.last = op, !.nops = @ + 1,
                 !.run = IF hist.last = "push" THEN @ ELSE 0,
                 !.hdrs = IF hist.last = "push" THEN @ ELSE <<>>]

InitStack ==
    /\ test_trace_stack \in StartStacks
    /\ fault = "none"
    /\ hist = HistNew
    /\ progress_stream = NoStream
    /\ terminal_width = 4
    /\ progress_lines = <<<<>>, <<>>, <<>>>>
    /\ term = TermNew
    /\ out = <<>>
    /\ call = NoCall
    /\ AppIdle

SClear ==
    /\ hist.nops < MaxOps
    /\ UNCHANGED <<boxVars, call, appVars>>
    /\ test_trace_stack' = clear(test_trace_stack)
    /\ fault' = "none"
    /\ hist' = HistAfter("clear")

SPush(h) ==
    /\ hist.nops < MaxOps
    /\ UNCHANGED <<boxVars, call, appVars>>
    /\ test_trace_stack' = push_keyword(test_trace_stack, h)
    /\ fault' = "none"
    /\ hist' = [hist EXCEPT
                  !.last = "push", !.nops = @ + 1,
                  !.run = IF hist.last = "push" THEN @ + 1 ELSE 1,
                  !.pre = IF hist.last = "push" THEN @ ELSE test_trace_stack,
                  !.bp = test_trace_stack,
                  !.hdrs = (IF hist.last = "push" THEN @ ELSE <<>>)
                             \o <<[h |-> h, d |-> test_trace_stack.depth]>>]

SPop ==
    /\ hist.nops < MaxOps
    /\ UNCHANGED <<boxVars, call, appVars>>
    /\ IF PopRaises(test_trace_stack)
         THEN /\ fault' = "IndexError"
              /\ UNCHANGED test_trace_stack
         ELSE /\ fault' = "none"
              /\ test_trace_stack' = pop_keyword(test_trace_stack)
    /\ hist' = HistAfter("pop")

SAppend ==
    /\ hist.nops < MaxOps
    /\ UNCHANGED <<boxVars, call, appVars>>
    /\ test_trace_stack' = append_trace(test_trace_stack, <<"line">>)
    /\ fault' = "none"
    /\ hist' = HistAfter("append")

SFlush(decrement_depth) ==
    /\ hist.nops < MaxOps
    /\ UNCHANGED <<boxVars, call, appVars>>
    /\ test_trace_stack' = flush(test_trace_stack, decrement_depth)
    /\ fault' = "none"
    /\ hist' = HistAfter(IF decrement_depth THEN "flush" ELSE "flush_keep")

NextStack ==
    \/ SClear
    \/ \E h \in Headers : SPush(h)
    \/ SPop
    \/ SAppend
    \/ \E d \in BOOLEAN : SFlush(d)

SpecStack == InitStack /\ [][NextStack]_vars


(***************************************************************************)
(* SpecLine: one call of _write_progress_line on a freshly drawn box, its  *)
(* arguments and the width drawn from bounded sets.                        *)
(***************************************************************************)
Letters == <<"a", "b", "c", "d", "e", "f", "g", "h", "i", "j", "k", "l", "m">>

Capitals == <<"N", "O", "P", "Q", "R", "S", "T", "U", "V", "W", "X", "Y", "Z">>

LeftText(n) == [i \in 1..n |-> Letters[((i - 1) % Len(Letters)) + 1]]

RightText(n) == [i \in 1..n |-> Capitals[((i - 1) % Len(Capitals)) + 1]]

InitLine ==
    /\ progress_stream = "STDOUT"
    /\ terminal_width \in 4..MaxWidth
    /\ progress_lines = RendererNew.lines
    /\ term = RendererNew.term
    /\ out = RendererNew.out
    /\ \E line_no \in 0..2, nl \in 0..MaxLeft, nr \in 0..MaxRight :
          call = [done |-> FALSE, line_no |-> line_no,
                  left_text |-> LeftText(nl), right_text |-> RightText(nr)]
    /\ test_trace_stack = TraceStackNew
    /\ fault = "none"
    /\ hist = HistNew
    /\ AppIdle

WriteLine ==
    /\ ~call.done
    /\ LET r == write_progress_line(Renderer, call.line_no, call.left_text,
                                    call.right_text)
       IN  /\ progress_lines' = r.lines
           /\ term' = r.term
           /\ out' = r.out
    /\ call' = [call EXCEPT !.done = TRUE]
    /\ UNCHANGED <<progress_stream, terminal_width, test_trace_stack, fault,
                   hist, appVars>>

NextLine == WriteLine

SpecLine == InitLine /\ [][NextLine]_vars

(***************************************************************************)
(* Spec: the listener is constructed, then the host sends well-nested      *)
(* events, one handler call at a time.                                     *)
(***************************************************************************)
SpecVerbosities == {"QUIET", "NORMAL", "DEBUG"}

\* suite descriptors: the number of child suites, the total number of tests
SuiteDescs ==
    {[suites |-> 0, test_count |-> 1, full_name |-> SuiteName],
     [suites |-> 2, test_count |-> 2, full_name |-> SuiteName]}

SuiteResults ==
    {[status |-> st, message |-> "message"] : st \in {"PASS", "FAIL"}}

TestDesc(k) ==
    [name |-> TestName(k), full_name |-> SuiteName \o <<".">> \o TestName(k)]

TestResults ==
    {[status |-> st, not_run |-> (st = "NOT RUN"), message |-> "message"] :
        st \in {"PASS", "FAIL", "NOT RUN"}}

KwEndResults ==
    {[status |-> st, elapsedtime |-> 1500] : st \in {"PASS", "NOT RUN"}}

Messages ==
    {[level |-> lv, message |-> <<"text">>] : lv \in {"ERROR", "INFO"}}

\* CLIProgress.__init__
Init ==
    /\ verbosity \in SpecVerbosities
    /\ colors = FALSE
    /\ progress_stream = "STDOUT"
    /\ terminal_width = SpecWidth
    /\ progress_lines = RendererNew.lines
    /\ term = RendererNew.term
    /\ out = RendererNew.out
    /\ stats = TestStatisticsNew
    /\ timings = TestTimingsNew
    /\ test_trace_stack = TraceStackNew
    /\ suite_trace_stack = TraceStackNew
    /\ now = 0
    /\ host = HostNew
    /\ fault = "none"
    /\ hist = HistNew
    /\ call = NoCall

\* the host may send another event
MaySend == ~host.closed /\ host.events < MaxEvents

\* the scope the host's next keyword event belongs to
HostScope == IF host.in_test THEN "test" ELSE "suite"

\* The host's events, each with the handler call it makes.  The host sends
\* them well nested and sends nothing after close.
HostStartSuite(suite) ==
    /\ ~host.closed
    /\ ~host.in_test /\ host.open = <<>>
    /\ StartSuite(suite)
    /\ host' = [Sent(host, "start_suite") EXCEPT
                  !.suites = @ + 1, !.suite = ScopeNew, !.started = @ + 1,
                  !.ran = Append(@, 0)]

HostEndSuite(result) ==
    /\ ~host.closed
    /\ ~host.in_test /\ host.open = <<>> /\ host.suites > 0
    /\ EndSuite([full_name |-> SuiteName], result)
    /\ host' = [Sent(host, "end_suite") EXCEPT
                  !.suites = @ - 1, !.suite = ScopeNew,
                  !.ran = SubSeq(@, 1, Len(@) - 1)]

HostStartTest ==
    /\ ~host.closed
    /\ ~host.in_test /\ host.open = <<>> /\ host.suites > 0
    /\ StartTest(TestDesc(host.tests + 1))
    /\ host' = [Sent(host, "start_test") EXCEPT
                  !.in_test = TRUE, !.test = ScopeNew, !.tests = @ + 1,
                  !.before = TestCounters(stats)]

HostEndTest(result) ==
    /\ ~host.closed
    /\ host.in_test /\ host.open = <<>>
    /\ EndTest(TestDesc(host.tests), result)
    /\ host' = [Sent(host, "end_test") EXCEPT
                  !.in_test = FALSE, !.test = ScopeNew,
                  !.results = Append(@, result.status)]

HostStartKeyword ==
    /\ ~host.closed
    /\ host.suites > 0
    /\ StartKeyword(KwResult(host[HostScope].next))
    /\ host' = [Sent(host, "start_keyword") EXCEPT
                  !.open = Append(@, host[HostScope].next),
                  ![HostScope].next = @ + 1]

HostEndKeyword(result) ==
    /\ ~host.closed
    /\ host.open # <<>>
    /\ EndKeyword(result)
    /\ host' = [Sent(host, "end_keyword") EXCEPT
                  !.open = SubSeq(@, 1, Len(@) - 1),
                  ![HostScope].not_run =
                      IF result.status = "NOT RUN"
                        THEN @ \cup {host.open[Len(host.open)]} ELSE @,
                  !.ran = IF host.in_test \/ result.status = "NOT RUN"
                            THEN @
                            ELSE [@ EXCEPT ![Len(@)] = @ + 1]]

HostLogMessage(message) ==
    /\ ~host.closed
    /\ host.suites > 0
    /\ LogMessage(message)
    /\ host' = [Sent(host, "log_message") EXCEPT
                  ![HostScope].logged = Append(@, message.level)]

HostClose ==
    /\ ~host.closed
    /\ host.suites = 0
    /\ Close
    /\ host' = [Sent(host, "close") EXCEPT !.closed = TRUE]

\* Spec: the events within the bounds
EvStartSuite(suite) ==
    MaySend /\ host.suites < MaxSuiteDepth /\ HostStartSuite(suite)

EvEndSuite(result) == MaySend /\ HostEndSuite(result)

EvStartTest == MaySend /\ HostStartTest

EvEndTest(result) == MaySend /\ HostEndTest(result)

EvStartKeyword == MaySend /\ Len(host.open) < MaxKwDepth /\ HostStartKeyword

EvEndKeyword(result) == MaySend /\ HostEndKeyword(result)

EvLogMessage(message) == MaySend /\ HostLogMessage(message)

EvClose == MaySend /\ HostClose

\* a second passes between two events of a run
Tick ==
    /\ ~host.closed
    /\ timings.run_start_time # None
    /\ now < MaxTime
    /\ now' = now + 1
    /\ UNCHANGED <<verbosity, colors, stats, timings, suite_trace_stack, host,
                   boxVars, test_trace_stack, fault, hist, call>>

Next ==
    \/ \E suite \in SuiteDescs : EvStartSuite(suite)
    \/ \E result \in SuiteResults : EvEndSuite(result)
    \/ EvStartTest
    \/ \E result \in TestResults : EvEndTest(result)
    \/ EvStartKeyword
    \/ \E result \in KwEndResults : EvEndKeyword(result)
    \/ \E message \in Messages : EvLogMessage(message)
    \/ EvClose
    \/ Tick

Spec == Init /\ [][Next]_vars

(***************************************************************************)
(* SpecQuiet: the same run with console_progress = NONE, so that no        *)
(* progress stream is configured.                                          *)
(***************************************************************************)
InitQuiet ==
    /\ verbosity \in SpecVerbosities
    /\ colors = FALSE
    /\ progress_stream = NoStream
    /\ terminal_width = SpecWidth
    /\ progress_lines = RendererNew.lines
    /\ term = RendererNew.term
    /\ out = RendererNew.out
    /\ stats = TestStatisticsNew
    /\ timings = TestTimingsNew
    /\ test_trace_stack = TraceStackNew
    /\ suite_trace_stack = TraceStackNew
    /\ now = 0
    /\ host = HostNew
    /\ fault = "none"
    /\ hist = HistNew
    /\ call = NoCall

\* the events of Spec, MaxQuietEvents of them at most
QuietMaySend == host.events < MaxQuietEvents

NextQuiet ==
    \/ \E suite \in SuiteDescs : QuietMaySend /\ EvStartSuite(suite)
    \/ \E result \in SuiteResults : QuietMaySend /\ EvEndSuite(result)
    \/ QuietMaySend /\ EvStartTest
    \/ \E result \in TestResults : QuietMaySend /\ EvEndTest(result)
    \/ QuietMaySend /\ EvStartKeyword
    \/ \E result \in KwEndResults : QuietMaySend /\ EvEndKeyword(result)
    \/ \E message \in Messages : QuietMaySend /\ EvLogMessage(message)
    \/ QuietMaySend /\ EvClose
    \/ QuietMaySend /\ Tick

SpecQuiet == InitQuiet /\ [][NextQuiet]_vars

(***************************************************************************)
(* SpecRun: a whole run of one suite of tests, from the start of the suite *)
(* to close.  Keywords and log messages occur inside the tests.            *)
(***************************************************************************)
RunTestResults ==
    {[status |-> st, not_run |-> FALSE, message |-> "message"] :
        st \in {"PASS", "SKIP", "FAIL"}}

RunMaySend == host.events < MaxRunEvents

RunStartSuite ==
    /\ RunMaySend /\ host.started = 0
    /\ HostStartSuite([suites |-> 0, test_count |-> 2, full_name |-> SuiteName])

RunStartTest == RunMaySend /\ host.tests < MaxRunTests /\ HostStartTest

RunStartKeyword ==
    /\ RunMaySend /\ host.in_test /\ Len(host.open) < MaxKwDepth
    /\ HostStartKeyword

RunLogMessage(message) == RunMaySend /\ host.in_test /\ HostLogMessage(message)

RunEndKeyword(result) == RunMaySend /\ HostEndKeyword(result)

RunEndTest(result) == RunMaySend /\ HostEndTest(result)

RunEndSuite(result) == RunMaySend /\ HostEndSuite(result)

RunClose == RunMaySend /\ host.started = 1 /\ HostClose

NextRun ==
    \/ RunStartSuite
    \/ RunStartTest
    \/ RunStartKeyword
    \/ \E message \in Messages : RunLogMessage(message)
    \/ \E result \in KwEndResults : RunEndKeyword(result)
    \/ \E result \in RunTestResults : RunEndTest(result)
    \/ \E result \in SuiteResults : RunEndSuite(result)
    \/ RunClose

SpecRun == Init /\ [][NextRun]_vars

(***************************************************************************)
(* SpecEta: one call of TestTimings.format_eta, on statistics and timings  *)
(* drawn from the bounds.                                                  *)
(***************************************************************************)
InitEta ==
    /\ stats \in {[TestStatisticsNew EXCEPT !.completed_tests = c,
                                            !.top_level_test_count = t] :
                     c \in 0..MaxCompleted, t \in {None} \cup 0..MaxTotal}
    /\ timings \in {[TestTimingsNew EXCEPT !.run_start_time = t] :
                       t \in {None, 0}}
    /\ now \in 0..MaxElapsed
    /\ verbosity = "NORMAL"
    /\ colors = FALSE
    /\ suite_trace_stack = TraceStackNew
    /\ test_trace_stack = TraceStackNew
    /\ host = HostNew
    /\ fault = "none"
    /\ hist = HistNew
    /\ progress_stream = NoStream
    /\ terminal_width = 4
    /\ progress_lines = <<<<>>, <<>>, <<>>>>
    /\ term = TermNew
    /\ out = <<>>
    /\ call = NoCall

\* timings.format_eta(stats)
FormatEta ==
    /\ ~call.done
    /\ call' = [call EXCEPT !.done = TRUE]
    /\ out' = <<[op |-> "format_eta", text |-> format_eta(timings, stats)]>>
    /\ UNCHANGED <<appVars, progress_stream, terminal_width, progress_lines,
                   term, test_trace_stack, fault, hist>>

NextEta == FormatEta

SpecEta == InitEta /\ [][NextEta]_vars

(***************************************************************************)
(* SpecTime: one call of TestTimings.format_time on a whole number of      *)
(* seconds, held in now.                                                   *)
(***************************************************************************)
InitTime ==
    /\ now \in 0..MaxSeconds
    /\ stats = TestStatisticsNew
    /\ timings = TestTimingsNew
    /\ verbosity = "NORMAL"
    /\ colors = FALSE
    /\ suite_trace_stack = TraceStackNew
    /\ test_trace_stack = TraceStackNew
    /\ host = HostNew
    /\ fault = "none"
    /\ hist = HistNew
    /\ progress_stream = NoStream
    /\ terminal_width = 4
    /\ progress_lines = <<<<>>, <<>>, <<>>>>
    /\ term = TermNew
    /\ out = <<>>
    /\ call = NoCall

\* TestTimings.format_time(now)
FormatTime ==
    /\ ~call.done
    /\ call' = [call EXCEPT !.done = TRUE]
    /\ out' = <<[op |-> "format_time", text |-> format_time(now, 1)]>>
    /\ UNCHANGED <<appVars, progress_stream, terminal_width, progress_lines,
                   term, test_trace_stack, fault, hist>>

NextTime == FormatTime

SpecTime == InitTime /\ [][NextTime]_vars

(***************************************************************************)
(* SpecScope: suites inside one another, tests, keywords that all ran and  *)
(* messages that raise warnings and errors, inside and outside the tests;  *)
(* everything that ends is printed.                                        *)
(***************************************************************************)
ScopeSuiteDesc == [suites |-> 1, test_count |-> 2, full_name |-> SuiteName]

ScopeTestResults ==
    {[status |-> st, not_run |-> FALSE, message |-> "message"] :
        st \in {"PASS", "FAIL"}}

ScopeKwResults ==
    {[status |-> st, elapsedtime |-> 1500] : st \in {"PASS", "FAIL"}}

ScopeMessages ==
    {[level |-> lv, message |-> <<"text">>] : lv \in {"ERROR", "WARN"}}

InitScope == Init /\ verbosity = "DEBUG"

ScopeMaySend == host.events < MaxScopeEvents

ScopeStartSuite ==
    /\ ScopeMaySend /\ host.suites < MaxSuiteDepth
    /\ HostStartSuite(ScopeSuiteDesc)

ScopeEndSuite(result) == ScopeMaySend /\ HostEndSuite(result)

ScopeStartTest == ScopeMaySend /\ HostStartTest

ScopeEndTest(result) == ScopeMaySend /\ HostEndTest(result)

ScopeStartKeyword ==
    ScopeMaySend /\ Len(host.open) < MaxKwDepth /\ HostStartKeyword

ScopeEndKeyword(result) == ScopeMaySend /\ HostEndKeyword(result)

ScopeLogMessage(message) == ScopeMaySend /\ HostLogMessage(message)

NextScope ==
    \/ ScopeStartSuite
    \/ \E result \in SuiteResults : ScopeEndSuite(result)
    \/ ScopeStartTest
    \/ \E result \in ScopeTestResults : ScopeEndTest(result)
    \/ ScopeStartKeyword
    \/ \E result \in ScopeKwResults : ScopeEndKeyword(result)
    \/ \E message \in ScopeMessages : ScopeLogMessage(message)

SpecScope == InitScope /\ [][NextScope]_vars

(***************************************************************************)
(* SpecStats: suites and tests only, with every kind of suite descriptor   *)
(* and every status a test can end with, also one the code does not know.  *)
(***************************************************************************)
StatsSuiteDescs ==
    {[suites |-> n, test_count |-> t, full_name |-> SuiteName] :
        n \in 0..MaxChildSuites, t \in 0..MaxTestCount}

StatsTestResults ==
    {[status |-> st, not_run |-> (st = "NOT RUN"), message |-> "message"] :
        st \in {"PASS", "SKIP", "FAIL", "NOT RUN", "BROKEN"}}

StatsMaySend == host.events < MaxStatsEvents

StatsStartSuite(suite) ==
    StatsMaySend /\ host.suites < MaxSuiteDepth /\ HostStartSuite(suite)

StatsEndSuite(result) == StatsMaySend /\ HostEndSuite(result)

StatsStartTest == StatsMaySend /\ HostStartTest

StatsEndTest(result) == StatsMaySend /\ HostEndTest(result)

NextStats ==
    \/ \E suite \in StatsSuiteDescs : StatsStartSuite(suite)
    \/ \E result \in SuiteResults : StatsEndSuite(result)
    \/ StatsStartTest
    \/ \E result \in StatsTestResults : StatsEndTest(result)

SpecStats == Init /\ [][NextStats]_vars

(***************************************************************************)
(* SpecLog: one suite, with log messages of every shape, keywords nested   *)
(* beyond the indentation cap, and every status a test, suite or keyword   *)
(* can end with.                                                           *)
(***************************************************************************)
\* message.level and message.message (the text split into its lines): two
\* lines, one line, and an empty or absent text; an absent level is ""
LogMessages ==
    {[level |-> lv, message |-> tx] :
        lv \in {"ERROR", "WARN", "INFO"},
        tx \in {<<"text">>, <<"text", "more">>}}
      \cup {[level |-> "", message |-> <<"text">>],
            [level |-> "ERROR", message |-> <<>>],
            [level |-> "", message |-> <<>>]}

LogTestResults ==
    {[status |-> st, not_run |-> (st = "NOT RUN"), message |-> "message"] :
        st \in {"PASS", "SKIP", "FAIL", "NOT RUN"}}

LogSuiteResults ==
    {[status |-> st, message |-> "message"] : st \in {"PASS", "SKIP", "FAIL"}}

LogKwResults ==
    {[status |-> st, elapsedtime |-> 1500] : st \in {"PASS", "FAIL", "NOT RUN"}}

\* the events sent that are not the start of something still open: a log
\* message adds one, the end of a keyword, test or suite adds two
HostSlack ==
    host.events - host.suites - (IF host.in_test THEN 1 ELSE 0)
        - Len(host.open)

LogMaySend == HostSlack < MaxLogSlack

LogStartSuite ==
    /\ host.suites = 0 /\ host.events = 0
    /\ HostStartSuite([suites |-> 0, test_count |-> 2, full_name |-> SuiteName])

LogStartTest == LogMaySend /\ HostStartTest

LogStartKeyword ==
    /\ Len(host.open) < (IF HostSlack = 0 THEN MaxLogDepth ELSE MaxKwDepth)
    /\ HostStartKeyword

LogLogMessage(message) == LogMaySend /\ HostLogMessage(message)

LogEndKeyword(result) == LogMaySend /\ HostEndKeyword(result)

LogEndTest(result) == LogMaySend /\ HostEndTest(result)

LogEndSuite(result) == LogMaySend /\ HostEndSuite(result)

NextLog ==
    \/ LogStartSuite
    \/ LogStartTest
    \/ LogStartKeyword
    \/ \E message \in LogMessages : LogLogMessage(message)
    \/ \E result \in LogKwResults : LogEndKeyword(result)
    \/ \E result \in LogTestResults : LogEndTest(result)
    \/ \E result \in LogSuiteResults : LogEndSuite(result)

SpecLog == Init /\ [][NextLog]_vars

(***************************************************************************)
(* Claims about the TraceStack operations (checked under SpecStack).       *)
(***************************************************************************)
\* The lines a flush writes for the headers of the last run of pushes: the
\* header pushed when the depth was d is indented by 2*min(d, 20) spaces.
RunLines ==
    [i \in 1..Len(hist.hdrs) |->
        [ind |-> 2 * Min(hist.hdrs[i].d, IndentCap), body |-> hist.hdrs[i].h]]

\* A flush has just followed a run of n >= 1 pushes.
FlushedAfterPushes ==
    /\ hist.last \in {"flush", "flush_keep"}
    /\ hist.run >= 1

\* C3 (as stated): after n >= 1 pushes followed by one flush, the depth is
\* the depth the stack had before the first of those pushes.
C3_DepthReturnsToPrePush ==
    (hist.last = "flush" /\ hist.run >= 1)
        => test_trace_stack.depth = hist.pre.depth

\* C3 (amended): after n >= 1 pushes followed by one flush, the depth is the
\* pre-push depth plus n - 1 when the flush decrements the depth (so it is
\* the pre-push depth exactly when n = 1), and the pre-push depth plus n
\* when it does not.
C3_DepthAfterPushesAndFlush ==
    FlushedAfterPushes =>
        test_trace_stack.depth =
            hist.pre.depth + hist.run - (IF hist.last = "flush" THEN 1 ELSE 0)

C3_Witness ==
    /\ hist.last = "flush"
    /\ hist.run = 2
    /\ test_trace_stack.depth = hist.pre.depth + 1

\* C4: after a run of pushes followed by a flush, the trace has gained one
\* line per pending header, in push order (headers still pending from before
\* the run first, then the run's), the header pushed at depth d indented by
\* 2*min(d, 20) spaces, and nothing is pending any more.
C4_FlushWritesPushedHeaders ==
    (FlushedAfterPushes /\ hist.pre.depth >= 0) =>
        /\ test_trace_stack.trace =
               hist.pre.trace \o hist.pre.stack \o RunLines
        /\ test_trace_stack.stack = <<>>

C4_Witness ==
    /\ FlushedAfterPushes
    /\ hist.run >= 2
    /\ hist.hdrs[1].d < IndentCap
    /\ hist.hdrs[hist.run].d > IndentCap
    /\ hist.hdrs[1].h # hist.hdrs[2].h
    /\ Len(test_trace_stack.trace) = Len(hist.pre.trace) + hist.run

\* C5: a pop immediately after a push leaves the trace, the pending headers
\* and the depth as they were before the push, and raises nothing.
C5_PushPopIsNoOp ==
    (hist.last = "pop" /\ hist.run >= 1) =>
        /\ test_trace_stack = hist.bp
        /\ fault = "none"

C5_Witness ==
    /\ hist.last = "pop"
    /\ hist.run >= 1
    /\ hist.bp.stack # <<>>
    /\ hist.bp.trace # <<>>
    /\ test_trace_stack = hist.bp

(***************************************************************************)
(* Claims about _write_progress_line (checked under SpecLine).             *)
(***************************************************************************)
\* the row composed by the call under test
ComposedRow == progress_lines[call.line_no + 1]

\* the space left for left_text: width-4, minus right_text and one separator
\* column when right_text is not empty, floored at 0
LeftSpace ==
    Max(0, (terminal_width - 4)
             - (IF Len(call.right_text) > 0 THEN Len(call.right_text) + 1
                                            ELSE 0))

\* C8 (as stated): for every line index and every left_text and right_text,
\* update_line composes a row of exactly width-4 characters.
C8_RowIsExactlyTextWidth ==
    call.done => Len(ComposedRow) = terminal_width - 4

\* C9: when left_text does not fit in the space s left for it, the row shows
\* its first s-3 characters and '...' if s >= 3, its first s characters and
\* no ellipsis if s < 3; then padding; right_text whole at the end of the row.
C9_TruncationRule ==
    (call.done /\ Len(call.left_text) > LeftSpace) =>
        LET shown == IF LeftSpace >= 3
                       THEN SubSeq(call.left_text, 1, LeftSpace - 3)
                              \o Ellipsis
                       ELSE SubSeq(call.left_text, 1, LeftSpace)
            gap == Len(ComposedRow) - Len(shown) - Len(call.right_text)
        IN  /\ gap >= 0
            /\ ComposedRow = shown \o Spaces(gap) \o call.right_text
            /\ SubSeq(term.screen[call.line_no + 1], 1, Len(ComposedRow) + 4)
                 = BoxRow(ComposedRow)

C9_Witness ==
    /\ call.done
    /\ Len(call.left_text) > LeftSpace
    /\ LeftSpace >= 4
    /\ Len(call.right_text) >= 2
    /\ SubSeq(ComposedRow, LeftSpace - 2, LeftSpace) = Ellipsis
    /\ ComposedRow[1] = call.left_text[1]

\* the other case of C9: fewer than three columns are left, no ellipsis
C9_WitnessNoEllipsis ==
    /\ call.done
    /\ Len(call.left_text) > LeftSpace
    /\ LeftSpace = 2
    /\ Len(call.right_text) >= 2
    /\ SubSeq(ComposedRow, 1, 2) = SubSeq(call.left_text, 1, 2)

(***************************************************************************)
(* Claims about the event handlers (checked under Spec).                   *)
(***************************************************************************)
BothStacks == {test_trace_stack, suite_trace_stack}

\* C1 (as stated): in a well-nested event sequence, a keyword-end with status
\* NOT RUN never pops a trace stack whose pending-header list is empty.
C1_NoStackUnderflow ==
    ~(host.last = "end_keyword" /\ fault = "IndexError")

HeadersIn(trace, scope) ==
    {k \in 1..host[scope].next :
        \E i \in DOMAIN trace :
            /\ trace[i].body.kind = "header"
            /\ trace[i].body.name = KwName(k)}

\* C6 (as stated): the header of a keyword whose keyword-end carries status
\* NOT RUN never appears in the trace of its scope.
C6_NotRunHeaderNeverInTrace ==
    /\ HeadersIn(test_trace_stack.trace, "test") \cap host.test.not_run = {}
    /\ HeadersIn(suite_trace_stack.trace, "suite") \cap host.suite.not_run = {}

\* the line updates written by the last handler call
Updates == {i \in DOMAIN out : out[i].op = "update"}

\* C7: every update_line(index) moves the cursor up 3 - index rows from its
\* resting row, rewrites that row and moves down as many rows, so whenever
\* the box is drawn the cursor is on the row where draw() left it.
C7_CursorReturnsToRestingRow ==
    /\ term.box = "drawn" => term.row = BoxRows - 1
    /\ \A i \in Updates : out[i].row = (BoxRows - 1) - (3 - out[i].line_no)

C7_Witness ==
    /\ host.last = "start_test"
    /\ Cardinality(Updates) = 1
    /\ host.events >= 4
    /\ term.box = "drawn"
    /\ term.row = BoxRows - 1
    /\ term.screen[2] = BoxRow(progress_lines[2])

\* the writes to the scrollback made by the last handler call
Writes == {i \in DOMAIN out : out[i].op = "writeln"}

\* C10: with a progress stream, every write of a trace or of the summary is
\* made while the box is erased (an erase precedes it, with only other
\* writes in between), and a trace print is followed, within the handler, by
\* a redraw of the box showing the three line buffers as last updated.
C10_EraseBeforePrintBeforeRedraw ==
    progress_stream # NoStream =>
        /\ \A i \in Writes :
             /\ out[i].box = "erased"
             /\ \E j \in 1..(i - 1) :
                    /\ out[j].op = "erase"
                    /\ \A k \in (j + 1)..(i - 1) : out[k].op = "writeln"
             /\ out[i].text.kind \in {"TEST", "SUITE"} =>
                    /\ i < Len(out)
                    /\ out[i + 1].op = "draw"
                    /\ out[i + 1].rows = DrawnRows(progress_lines)
                    /\ i + 1 = Len(out)
                    /\ term.box = "drawn"
                    /\ term.screen = DrawnRows(progress_lines)
        /\ \A i \in Updates :
             progress_lines[out[i].line_no + 1] = out[i].text

C10_Witness ==
    /\ host.last = "end_test"
    /\ Len(out) = 4
    /\ out[3].op = "writeln"
    /\ out[3].text.kind = "TEST"
    /\ Len(out[3].text.trace) >= 2
    /\ out[4].op = "draw"
    /\ out[4].rows[1] = BoxRow(progress_lines[1])
    /\ SubSeq(progress_lines[1], 1, 6) = <<"[", "S", "U", "I", "T", "E">>
    /\ Len(progress_lines[1]) = terminal_width - 4

\* C11: with a progress stream the box is drawn by the constructor; a line
\* update is only written while the box is drawn; the box is drawn when any
\* handler other than close is over; close erases the box and writes
\* nothing but lines of text after that, and no handler runs after close.
C11_RendererStateMachine ==
    progress_stream # NoStream =>
        /\ host.last = "init" =>
               /\ term.box = "drawn"
               /\ Len(out) = 1 /\ out[1].op = "draw"
        /\ \A i \in Updates : out[i].box = "drawn"
        /\ ~host.closed => term.box = "drawn"
        /\ host.closed =>
               /\ host.last = "close"
               /\ term.box = "erased"
               /\ out # <<>> /\ out[1].op = "erase"
               /\ \A i \in 2..Len(out) : out[i].op = "writeln"

C11_Witness ==
    /\ host.closed
    /\ term.box = "erased"
    /\ stats.failed_tests = 1
    /\ Len(out) = 3

\* the erasures written by the last handler call
Erases == {i \in DOMAIN out : out[i].op = "erase"}

\* the rows of the box from the bottom border up to the top border
RowsBottomUp == [k \in 1..BoxRows |-> BoxRows - k]

\* C12 (as stated): erase(), issued from the resting position, clears the
\* five rows of the box from the bottom upward and leaves the cursor at
\* column 0 of the row immediately above the box (the row before row 0).
C12_EraseEndsAboveBox ==
    \A i \in Erases :
        /\ out[i].from = BoxRows - 1
        /\ out[i].cleared = RowsBottomUp
        /\ out[i].row = 0 - 1
        /\ out[i].col = 0

\* C12 (amended): erase(), issued from the resting position, clears exactly
\* the five rows of the box, bottom border first and top border last, and
\* leaves the cursor at column 0 of the row the top border was on.
C12_EraseEndsOnTopRow ==
    \A i \in Erases :
        /\ out[i].from = BoxRows - 1
        /\ out[i].cleared = RowsBottomUp
        /\ \A row \in DOMAIN out[i].screen : out[i].screen[row] = <<>>
        /\ out[i].row = 0
        /\ out[i].col = 0

C12_Witness ==
    /\ host.last = "end_test"
    /\ Erases = {2}
    /\ out[2].cleared = <<4, 3, 2, 1, 0>>
    /\ out[1].op = "update"
    /\ out[1].row = 2

(***************************************************************************)
(* Claims about a run without a progress stream (checked under SpecQuiet). *)
(***************************************************************************)
\* the texts written to the normal output, in order
Texts(ops) ==
    LET W == {i \in DOMAIN ops : ops[i].op = "writeln"}
        RECURSIVE Pick(_)
        Pick(i) == IF i > Len(ops) THEN <<>>
                   ELSE IF i \in W THEN <<ops[i].text>> \o Pick(i + 1)
                   ELSE Pick(i + 1)
    IN  Pick(1)

\* the renderer of a listener constructed with a progress stream, in the
\* state every handler finds it in: the box drawn
Loud ==
    [draw_progress_box([lines |-> progress_lines, term |-> TermNew,
                        out |-> <<>>, stream |-> "STDOUT"])
        EXCEPT !.out = <<>>]

\* a handler call without a progress stream writes no box and moves no
\* cursor, and writes to the normal output the texts the same call writes
\* with a progress stream
QuietCall ==
    /\ \A i \in DOMAIN out' : out'[i].op = "writeln"
    /\ term'.box = "undrawn"
    /\ progress_lines' = <<<<>>, <<>>, <<>>>>
    /\ \A suite \in SuiteDescs :
          HostStartSuite(suite) =>
              Texts(out') = Texts(RenderStartSuite(Loud, suite).out)
    /\ \A result \in SuiteResults :
          HostEndSuite(result) =>
              Texts(out') = Texts(RenderEndSuite(Loud, [full_name |-> SuiteName],
                                                 result).out)
    /\ HostStartTest =>
          Texts(out') = Texts(RenderStartTest(Loud,
                                              TestDesc(host.tests + 1)).out)
    /\ \A result \in TestResults :
          HostEndTest(result) =>
              Texts(out') = Texts(RenderEndTest(Loud, TestDesc(host.tests),
                                                result).out)
    /\ HostStartKeyword =>
          Texts(out') = Texts(RenderStartKeyword(
                                  Loud, KwResult(host[HostScope].next)).out)
    /\ \A result \in KwEndResults :
          HostEndKeyword(result) =>
              Texts(out') = Texts(RenderEndKeyword(Loud, result).out)
    /\ \A message \in Messages :
          HostLogMessage(message) =>
              Texts(out') = Texts(RenderLogMessage(Loud, message).out)
    /\ HostClose => Texts(out') = Texts(RenderClose(Loud).out)

\* C13: without a progress stream no event sequence writes a box, a line
\* update or an erasure (draw, update_line and erase return at once), while
\* the traces of tests and suites and the final summary are written to the
\* normal output exactly as with a progress stream.
C13_QuietProgressMode ==
    /\ [](out = <<>> \/ \A i \in DOMAIN out : out[i].op = "writeln")
    /\ [][QuietCall]_vars

C13_Witness ==
    /\ progress_stream = NoStream
    /\ host.last = "end_test"
    /\ Len(out) = 1
    /\ out[1].op = "writeln"
    /\ out[1].text.kind = "TEST"
    /\ Len(out[1].text.trace) >= 2
    /\ term.box = "undrawn"

(***************************************************************************)
(* Claims about log messages and the printing of traces (checked under     *)
(* SpecLog).                                                               *)
(***************************************************************************)
\* the lines of a trace that log messages of the given levels wrote
LogLines(trace, levels) ==
    {i \in DOMAIN trace :
        trace[i].body.kind = "log" /\ trace[i].body.level \in levels}

\* a handler call wrote the block of a test or suite with the given trace
PrintedTrace(ops, kind, trace) ==
    \E i \in DOMAIN ops :
        /\ ops[i].op = "writeln"
        /\ ops[i].text.kind = kind
        /\ ops[i].text.trace = trace

\* the end of a test that ran prints a trace holding a WARN or ERROR line
WarnedTestIsPrinted ==
    \A result \in LogTestResults :
        (/\ result.status \in {"PASS", "SKIP", "FAIL"}
         /\ LogLines(test_trace_stack.trace, {"WARN", "ERROR"}) # {}
         /\ HostEndTest(result))
            => PrintedTrace(out', "TEST", test_trace_stack.trace)

\* the end of a suite prints a trace holding a WARN or ERROR line
WarnedSuiteIsPrinted ==
    \A result \in LogSuiteResults :
        (/\ LogLines(suite_trace_stack.trace, {"WARN", "ERROR"}) # {}
         /\ HostEndSuite(result))
            => PrintedTrace(out', "SUITE", suite_trace_stack.trace)

WarnedTraceIsPrinted ==
    verbosity \in {"NORMAL", "DEBUG"} =>
        (WarnedTestIsPrinted /\ WarnedSuiteIsPrinted)

\* C14 (as stated): with verbosity NORMAL or DEBUG, a trace into which a
\* WARN or ERROR message was recorded is printed when its test or suite
\* ends, whether the status is PASS, SKIP or FAIL.
C14_WarnedTraceIsPrinted == [][WarnedTraceIsPrinted]_vars

\* the end of a test prints one block or none, as the filter says, and the
\* block holds the trace, or the result's message when the trace is empty
TestEndFilter ==
    \A result \in LogTestResults :
        HostEndTest(result) =>
            LET flagged == test_trace_stack.has_errors
                             \/ test_trace_stack.has_warnings
                expected ==
                    /\ ~result.not_run
                    /\ \/ result.status = "FAIL"
                       \/ result.status \in {"PASS", "SKIP"}
                            /\ verbosity = "DEBUG"
                       \/ flagged /\ verbosity \in {"NORMAL", "DEBUG"}
                blocks == {i \in DOMAIN out' : out'[i].op = "writeln"}
            IN  /\ (blocks # {}) <=> expected
                /\ Cardinality(blocks) <= 1
                /\ \A i \in blocks :
                      /\ out'[i].text.kind = "TEST"
                      /\ out'[i].text.status = result.status
                      /\ out'[i].text.trace =
                            IF test_trace_stack.trace = <<>>
                              THEN <<[ind |-> 0, body |-> result.message]>>
                              ELSE test_trace_stack.trace

\* C15: at the end of a test that ran, a trace block is printed if and only
\* if the status is FAIL, or it is PASS or SKIP and verbosity is DEBUG, or
\* the test's stack has its error or warning flag set and verbosity is
\* NORMAL or DEBUG; nothing is printed for a test marked not-run; a printed
\* block holds the result's message when no trace was recorded.
C15_TestEndPrintFilter == [][TestEndFilter]_vars

C15_Witness ==
    /\ host.last = "end_test"
    /\ verbosity = "NORMAL"
    /\ \E i \in DOMAIN out :
          /\ out[i].op = "writeln"
          /\ out[i].text.status = "PASS"
          /\ out[i].text.with_warnings
          /\ LogLines(out[i].text.trace, {"WARN"}) # {}

C15_WitnessMessage ==
    /\ host.last = "end_test"
    /\ verbosity = "QUIET"
    /\ \E i \in DOMAIN out :
          /\ out[i].op = "writeln"
          /\ out[i].text.status = "FAIL"
          /\ out[i].text.trace = <<[ind |-> 0, body |-> "message"]>>

(***************************************************************************)
(* Claims about a whole run (checked under SpecRun).                       *)
(***************************************************************************)
\* the blocks printed in the run for an item that failed
FailureBlocks == {i \in DOMAIN host.printed : host.printed[i].status = "FAIL"}

\* the tests of the run that ended with the given status
TestsEnded(status) == {k \in DOMAIN host.results : host.results[k] = status}

\* C16: the run of one suite with one passing and one failing test (in
\* either order, with any keywords and log messages inside the tests),
\* ended by close, prints the summary "2 tests, 2 completed (1 passed,
\* 0 skipped, 1 failed)" and exactly one failure block, the failing test's.
C16_EndToEnd ==
    (/\ host.closed
     /\ Len(host.results) = 2
     /\ Cardinality(TestsEnded("PASS")) = 1
     /\ Cardinality(TestsEnded("FAIL")) = 1)
        => /\ out[Len(out) - (IF verbosity = "QUIET" THEN 0 ELSE 1)].text
                 = [format_run_results(stats) EXCEPT
                      !.tests = 2, !.plural = TRUE, !.completed = 2,
                      !.passed = 1, !.skipped = 0, !.failed = 1]
           /\ Cardinality(FailureBlocks) = 1
           /\ \A i \in FailureBlocks :
                 /\ host.printed[i].kind = "TEST"
                 /\ \A k \in TestsEnded("FAIL") :
                       host.printed[i].name = TestDesc(k).full_name

C16_Witness ==
    /\ host.closed
    /\ host.results = <<"PASS", "FAIL">>
    /\ verbosity = "NORMAL"
    /\ host.printed = <<[kind |-> "TEST", status |-> "FAIL",
                         name |-> <<"S", ".", "T", "2">>]>>
    /\ out[2].text.completed = 2
    /\ out[2].text.failed = 1

\* the stack log_message does not work on
OtherStack == IF in_test THEN suite_trace_stack ELSE test_trace_stack

\* a log_message call with one of the given messages adds one to the error
\* counter and sets the error flag of the active stack if the level is
\* ERROR, does so for the warning counter and flag if it is WARN, and
\* changes no other counter or flag
CountedOnce(messages) ==
    \A message \in messages :
        HostLogMessage(message) =>
            LET e == IF message.level = "ERROR" THEN 1 ELSE 0
                w == IF message.level = "WARN" THEN 1 ELSE 0
            IN  /\ stats' = [stats EXCEPT !.errors = @ + e,
                                          !.warnings = @ + w]
                /\ ActiveStack'.has_errors =
                       (ActiveStack.has_errors \/ e = 1)
                /\ ActiveStack'.has_warnings =
                       (ActiveStack.has_warnings \/ w = 1)
                /\ OtherStack' = OtherStack

\* C17 (as stated): each log message at level ERROR adds exactly one to the
\* error counter and sets the error flag of the active stack, whatever the
\* number of lines of its text; WARN does so for the warning counter and
\* flag; every other level changes neither counter nor flag.
C17_CountedOncePerMessage == [][CountedOnce(LogMessages)]_vars

\* the same for the messages whose text has at least one line
CountedOncePerLinedMessage ==
    [][CountedOnce({m \in LogMessages : m.message # <<>>})]_vars

\* C18 (as stated): log_message completes without raising for every
\* message, also with an empty or absent text or an absent level, and
\* appends a line for the message to the active stack's trace.
C18_LogMessageNeverRaises ==
    host.last = "log_message" =>
        /\ fault = "none"
        /\ ActiveStack.trace # <<>>
        /\ ActiveStack.trace[Len(ActiveStack.trace)].body.kind = "log"

\* the lines of a message as they stand in the trace when every one of them
\* is indented by the depth of the stack s
AlignedLines(s, message) ==
    LET level == IF message.level # "" THEN message.level ELSE "UNKNOWN"
        lines == MessageLines(level, message.message)
    IN  [i \in 1..Len(lines) |-> Indented(s, lines[i])]

\* a log_message call appends the lines of its message, each indented by
\* the depth of the active stack, after the headers it flushes
AppendedAligned ==
    \A message \in LogMessages :
        HostLogMessage(message) /\ Len(message.message) >= 2 =>
            ActiveStack'.trace =
                ActiveStack.trace \o ActiveStack.stack
                    \o AlignedLines(ActiveStack, message)

\* C19 (as stated): when a log message of several lines is appended to a
\* stack at depth d, every line of the message is written to the trace
\* indented by 2*min(d, 20) spaces, the continuation lines aligned under the
\* text of the first line.
C19_EveryLineIndented == [][AppendedAligned]_vars

\* a log_message call moves the pending headers to the end of the trace in
\* the order they were pushed, leaves none pending, writes after them
\* nothing but the lines of its message, and leaves the depth as it was
LogFlushesHeaders ==
    \A message \in LogMessages :
        HostLogMessage(message) =>
            LET before == ActiveStack.trace \o ActiveStack.stack
                after == ActiveStack'.trace
            IN  /\ ActiveStack'.stack = <<>>
                /\ ActiveStack'.depth = ActiveStack.depth
                /\ Len(after) >= Len(before)
                /\ SubSeq(after, 1, Len(before)) = before
                /\ \A i \in (Len(before) + 1)..Len(after) :
                       after[i].body.kind = "log"

\* the end of the enclosing keyword that follows a log_message call brings
\* the depth back to the level of that keyword: the number of keywords that
\* stay open around it
EndAfterLogRestoresDepth ==
    \A result \in LogKwResults :
        host.last = "log_message" /\ HostEndKeyword(result) =>
            ActiveStack'.depth = Len(host.open) - 1

\* the same for the keywords that end with a status other than NOT RUN
RunEndAfterLogRestoresDepth ==
    [][\A result \in LogKwResults :
           /\ host.last = "log_message"
           /\ result.status # "NOT RUN"
           /\ HostEndKeyword(result)
           => ActiveStack'.depth = Len(host.open) - 1]_vars

C20_LogFlushesHeaders == [][LogFlushesHeaders]_vars

\* C20 (as stated): log_message moves every pending header into the trace,
\* in push order and before the log line, and leaves the depth of the active
\* stack unchanged, so that the following end of the enclosing keyword
\* brings the depth back to that keyword's own level.
C20_LogFlushKeepsDepth ==
    [][LogFlushesHeaders /\ EndAfterLogRestoresDepth]_vars

(***************************************************************************)
(* Claims about the Statistics Tracker and the time formatting.            *)
(***************************************************************************)
\* the last test has just ended with a result marked not-run
NotRunTestEnded ==
    /\ host.last = "end_test"
    /\ host.results[Len(host.results)] = "NOT RUN"

\* C21 (as stated): after the test-end of a test whose result is marked
\* not-run, every test counter (started, completed, passed, failed,
\* skipped) has the value it had before that test's test-start.
C21_NotRunTestLeavesNoCount ==
    NotRunTestEnded => TestCounters(stats) = host.before

\* C21 (amended): completed, passed, failed and skipped have the value they
\* had before the test's test-start; started is one higher.
C21_NotRunTestCountsAsStarted ==
    NotRunTestEnded =>
        TestCounters(stats) = [host.before EXCEPT !.started = @ + 1]

\* a not-run test ended after another test had completed
C21_Witness ==
    /\ NotRunTestEnded
    /\ host.before.completed = 1
    /\ stats.started_tests = 2

\* what end_test of the Statistics Tracker does with a result: nothing for
\* a not-run result; otherwise one more completed and one more of the
\* counter that matches the status, if any
EndTestCounts ==
    \A result \in StatsTestResults :
        HostEndTest(result) =>
            LET ran == IF result.not_run THEN 0 ELSE 1
                is(status) == IF result.status = status THEN ran ELSE 0
            IN  stats' = [stats EXCEPT !.completed_tests = @ + ran,
                                       !.passed_tests = @ + is("PASS"),
                                       !.failed_tests = @ + is("FAIL"),
                                       !.skipped_tests = @ + is("SKIP")]

\* the number of tests that ended, were run, and had a status other than
\* PASS, FAIL and SKIP
EndedOtherwise ==
    Cardinality({i \in DOMAIN host.results :
                    host.results[i] \notin {"PASS", "FAIL", "SKIP", "NOT RUN"}})

CompletedIsSum ==
    stats.completed_tests =
        stats.passed_tests + stats.failed_tests + stats.skipped_tests
            + EndedOtherwise

\* C22: end_test of the Statistics Tracker changes no counter for a not-run
\* result; otherwise completed increases by one and exactly the counter
\* matching the status (PASS, FAIL, SKIP) increases by one, none for another
\* status; so completed = passed + failed + skipped + (number of ended
\* tests with another status) in every reachable state.
C22_EndTestCounts == [][EndTestCounts]_vars /\ []CompletedIsSum

\* a test has ended with a status the code does not know, after a test that
\* was skipped
C22_Witness ==
    /\ host.last = "end_test"
    /\ host.results = <<"SKIP", "BROKEN">>
    /\ stats.completed_tests = 2
    /\ stats.skipped_tests = 1

\* the first suite-start sets both totals from its descriptor; every later
\* step, whatever descriptor a suite-start carries, leaves them as they are
LatchedByFirstSuite ==
    /\ \A suite \in StatsSuiteDescs :
           host.started = 0 /\ HostStartSuite(suite) =>
               /\ stats'.top_level_suite_count =
                      (IF suite.suites = 0 THEN 1 ELSE suite.suites)
               /\ stats'.top_level_test_count = suite.test_count
    /\ host.started > 0 =>
           /\ stats'.top_level_suite_count = stats.top_level_suite_count
           /\ stats'.top_level_test_count = stats.top_level_test_count

\* C23: top_level_suite_count and top_level_test_count are latched by the
\* first suite-start (the number of immediate child suites, or 1 when there
\* are none; the descriptor's total test count) and keep those values
\* through every later suite-start, whatever descriptor it carries.
C23_TotalsLatchedOnce == [][LatchedByFirstSuite]_vars

\* a third suite has started, and the totals are those of a first
\* descriptor with two child suites and no test
C23_Witness ==
    /\ host.last = "start_suite"
    /\ host.started = 3
    /\ stats.top_level_suite_count = 2
    /\ stats.top_level_test_count = 0

\* the integer n is the number num/den (den > 0) rounded to the nearest
\* integer, a half to the even one
Nearest(n, num, den) ==
    LET twice == 2 * (n * den - num)
    IN  /\ twice <= den /\ 0 - twice <= den
        /\ (twice = den \/ 0 - twice = den) => n % 2 = 0

\* the whole numbers of seconds an ETA can be within the bounds
EtaRange ==
    (0 - (MaxElapsed * MaxCompleted))..(MaxElapsed * (MaxTotal + 1))

\* C24: the ETA is "unknown" whenever no test has completed or the total is
\* unknown or zero; otherwise it is (elapsed / completed) * (total -
\* completed), rendered as a time to the nearest second.
C24_EtaValue ==
    call.done =>
        LET completed == stats.completed_tests
            total == stats.top_level_test_count
            elapsed == IF timings.run_start_time = None THEN 0
                       ELSE now - timings.run_start_time
        IN  IF completed = 0 \/ total = None \/ total = 0
              THEN out[1].text = Unknown
              ELSE \E n \in EtaRange :
                      /\ Nearest(n, elapsed * (total - completed), completed)
                      /\ out[1].text = format_seconds(n, 1)

\* 5 completed tests in 20 elapsed seconds out of 15 give an ETA of 40s
C24_Witness ==
    /\ call.done
    /\ stats.completed_tests = 5
    /\ stats.top_level_test_count = 15
    /\ timings.run_start_time = 0
    /\ now = 20
    /\ out[1].text = <<"4", "0", "s">>

\* a number below 100 in a field of two columns
TwoColumns(n) == IF n < 10 THEN <<" ">> \o Digit(n) ELSE Decimal(n)

\* the text is the time of h hours, m minutes and s seconds with the leading
\* zero units left out
HoursMinutesSeconds(text) ==
    \E h \in 0..(MaxSeconds \div 3600), m \in 0..59, s \in 0..59 :
        /\ now = 3600 * h + 60 * m + s
        /\ text =
             IF h # 0
               THEN TwoColumns(h) \o <<"h", " ">> \o TwoColumns(m) \o <<"m", " ">>
                      \o TwoColumns(s) \o <<"s">>
             ELSE IF m # 0
               THEN TwoColumns(m) \o <<"m", " ">> \o TwoColumns(s) \o <<"s">>
             ELSE TwoColumns(s) \o <<"s">>

\* the renderings the specification lists, 0 being rendered as zero
ListedTimes(text, zero) ==
    /\ now = 0 => text = zero
    /\ now = 45 => text = <<"4", "5", "s">>
    /\ now = 125 => text = <<" ", "2", "m", " ", " ", "5", "s">>
    /\ now = 3665 =>
           text = <<" ", "1", "h", " ", " ", "1", "m", " ", " ", "5", "s">>

\* C25 (as stated): a whole number of seconds is rendered as hours, minutes
\* and seconds without the leading zero units: 0 as "0s", 45 as "45s", 125
\* as " 2m  5s" and 3665 as " 1h  1m  5s".
C25_TimesAsListed ==
    call.done =>
        /\ HoursMinutesSeconds(out[1].text)
        /\ ListedTimes(out[1].text, <<"0", "s">>)

\* C25 (amended): every number shown, the first one too, takes two columns,
\* so that 0 is rendered as " 0s".
C25_TimesInTwoColumns ==
    call.done =>
        /\ HoursMinutesSeconds(out[1].text)
        /\ ListedTimes(out[1].text, <<" ", "0", "s">>)

\* 3665 seconds have been rendered
C25_Witness ==
    /\ call.done
    /\ now = 3665
    /\ out[1].text = <<" ", "1", "h", " ", " ", "1", "m", " ", " ", "5", "s">>

(***************************************************************************)
(* Claims about the scopes of the two trace stacks (checked under          *)
(* SpecScope).                                                             *)
(***************************************************************************)
\* the blocks of tests among the operations written by a call
TestBlocks(ops) ==
    {ops[i].text : i \in {j \in DOMAIN ops : /\ ops[j].op = "writeln"
                                              /\ ops[j].text.kind = "TEST"}}

\* the levels of the log lines of a trace, in order
LogLevels(trace) ==
    LET logs == SelectSeq(trace, LAMBDA line : line.body.kind = "log")
    IN  [i \in DOMAIN logs |-> logs[i].body.level]

Levels(logged) == {logged[i] : i \in DOMAIN logged}

\* test-start leaves the test stack as new and suite-start the suite stack;
\* the block a test-end prints says WITH ERRORS and WITH WARNINGS, and holds
\* the log lines, of the messages the host sent since that test's test-start
ResetAtStart ==
    /\ HostStartTest => test_trace_stack' = TraceStackNew
    /\ HostStartSuite(ScopeSuiteDesc) => suite_trace_stack' = TraceStackNew
    /\ \A result \in ScopeTestResults :
           HostEndTest(result) =>
               \A block \in TestBlocks(out') :
                   /\ block.with_errors = ("ERROR" \in Levels(host.test.logged))
                   /\ block.with_warnings =
                          ("WARN" \in Levels(host.test.logged))
                   /\ host.test.logged # <<>> =>
                          LogLevels(block.trace) = host.test.logged

\* C26: the test trace stack is reset (empty trace, depth 0, no pending
\* header, both flags false) at every test-start and the suite trace stack
\* at every suite-start, so that the WITH ERRORS / WITH WARNINGS decision and
\* the trace printed at a test-end depend only on the events received since
\* that test's own test-start.
C26_StacksResetAtStart == [][ResetAtStart]_vars

\* a second test has ended and its block tells of no error, although an
\* error and a warning were logged before it started
C26_Witness ==
    /\ host.last = "end_test"
    /\ host.tests = 2
    /\ stats.errors = 1
    /\ stats.warnings = 1
    /\ \E block \in TestBlocks(out) :
           ~block.with_errors /\ ~block.with_warnings

\* the places of a trace where the header of the keyword of the given name
\* stands
HeaderAt(trace, name) ==
    {i \in DOMAIN trace :
        trace[i].body.kind = "header" /\ trace[i].body.name = name}

\* the trace holds the header of each of the given keywords (outermost
\* first) exactly once, an ancestor's above a descendant's, and all of them
\* above its last line
HeadersAbove(trace, keywords) ==
    /\ \A j \in DOMAIN keywords :
           \E i \in 1..(Len(trace) - 1) :
               HeaderAt(trace, KwName(keywords[j])) = {i}
    /\ \A j, k \in DOMAIN keywords :
           j < k =>
               \A i \in HeaderAt(trace, KwName(keywords[j])),
                  l \in HeaderAt(trace, KwName(keywords[k])) : i < l

\* a trace only grows while keywords start, log and end
IsPrefix(a, b) == Len(a) <= Len(b) /\ SubSeq(b, 1, Len(a)) = a

\* keyword-start writes nothing to the trace; a log message and a
\* keyword-end write one line at the end of the trace, the log line or the
\* status line, with the headers of the open keywords above it
HeadersInOrder ==
    /\ HostStartKeyword => ActiveStack'.trace = ActiveStack.trace
    /\ \A message \in ScopeMessages :
           HostLogMessage(message) =>
               /\ IsPrefix(ActiveStack.trace, ActiveStack'.trace)
               /\ ActiveStack'.trace[Len(ActiveStack'.trace)].body.kind = "log"
               /\ HeadersAbove(ActiveStack'.trace, host.open)
    /\ \A result \in ScopeKwResults :
           HostEndKeyword(result) =>
               /\ IsPrefix(ActiveStack.trace, ActiveStack'.trace)
               /\ ActiveStack'.trace[Len(ActiveStack'.trace)].body =
                      KeywordTrace(result)
               /\ HeadersAbove(ActiveStack'.trace, host.open)

\* C27: for keywords that all ran, well nested within one scope, with log
\* messages anywhere in between, the header of each keyword is written to
\* the trace of the scope exactly once, after the headers of all its
\* ancestors, before its own status line and before every header, log line
\* and status line of its descendants.
C27_HeadersInOrder == [][HeadersInOrder]_vars

\* two keywords inside one another have ended, with a message logged in the
\* inner one
C27_Witness ==
    /\ host.last = "end_keyword"
    /\ host.open = <<>>
    /\ Len(ActiveStack.trace) = 5
    /\ HeaderAt(ActiveStack.trace, KwName(1)) = {1}
    /\ HeaderAt(ActiveStack.trace, KwName(2)) = {2}
    /\ ActiveStack.trace[3].body.kind = "log"
    /\ ActiveStack.trace[4].body.kind = "status"
    /\ ActiveStack.trace[5].body.kind = "status"

\* C28 (as stated): in every state reached after a handler returns normally
\* in a well-nested event sequence, the depth of the active stack is the
\* number of keywords started and not yet ended in that scope, the depth is
\* never negative, and the number of pending headers is between 0 and the
\* depth.
C28_DepthIsOpenKeywords ==
    fault = "none" =>
        /\ ActiveStack.depth = Len(host.open)
        /\ ActiveStack.depth >= 0
        /\ Len(ActiveStack.stack) <= ActiveStack.depth

\* the blocks of suites among the operations written by a call
SuiteBlocks(ops) ==
    {ops[i].text : i \in {j \in DOMAIN ops : /\ ops[j].op = "writeln"
                                              /\ ops[j].text.kind = "SUITE"}}

\* the lines of a given kind in a trace
LinesOf(trace, kind) == {i \in DOMAIN trace : trace[i].body.kind = kind}

\* the end of a suite with status FAIL prints a block whose trace holds a
\* header and a status line for each keyword that ran directly in the suite
FailedSuiteShowsItsKeywords ==
    \A result \in SuiteResults :
        (/\ result.status = "FAIL"
         /\ HostEndSuite(result)
         /\ host.ran[Len(host.ran)] > 0)
            => \E block \in SuiteBlocks(out') :
                  /\ Cardinality(LinesOf(block.trace, "header"))
                         >= host.ran[Len(host.ran)]
                  /\ Cardinality(LinesOf(block.trace, "status"))
                         >= host.ran[Len(host.ran)]

\* C29 (as stated): when a suite ends with status FAIL, the trace printed
\* for it holds the header and the status line of every keyword that ran at
\* suite level between that suite's own suite-start and its suite-end, also
\* when child suites started and ended in between.
C29_FailedSuiteShowsItsKeywords == [][FailedSuiteShowsItsKeywords]_vars

\* C30 (as stated): in the suite fraction shown on line 0 of the box, the
\* number of suites started never exceeds the total it is shown against,
\* for any suite tree, also when the root suite has child suites.
C30_StartedSuitesWithinTotal ==
    stats.started_suites > 0 =>
        stats.started_suites <= stats.top_level_suite_count

\* the host sends a keyword-start, a keyword-end or a log message
KeywordOrLogEvent ==
    \/ HostStartKeyword
    \/ \E result \in ScopeKwResults : HostEndKeyword(result)
    \/ \E message \in ScopeMessages : HostLogMessage(message)

\* a keyword or log event between a test-start and its test-end changes the
\* test stack and leaves the suite stack as it is, outside a test it changes
\* the suite stack and leaves the test stack as it is; no test starts or
\* ends while a keyword is open, so that a keyword-end finds the stack its
\* keyword-start pushed onto
StacksIndependent ==
    /\ KeywordOrLogEvent =>
           IF host.in_test
             THEN /\ suite_trace_stack' = suite_trace_stack
                  /\ test_trace_stack' # test_trace_stack
             ELSE /\ test_trace_stack' = test_trace_stack
                  /\ suite_trace_stack' # suite_trace_stack
    /\ host.open # <<>> => host'.in_test = host.in_test

\* C31: the two trace stacks are independent: keyword-start, keyword-end and
\* log-message events received between a test-start and its test-end modify
\* only the test stack and leave the suite stack unchanged, events received
\* outside a test modify only the suite stack, and a keyword-end always acts
\* on the stack its keyword-start pushed onto.
C31_StacksIndependent == [][StacksIndependent]_vars

\* a keyword has ended inside a test while the suite stack holds the trace
\* of a keyword that ran before the test
C31_Witness ==
    /\ host.in_test
    /\ host.last = "end_keyword"
    /\ LinesOf(suite_trace_stack.trace, "header") # {}
    /\ LinesOf(test_trace_stack.trace, "header") # {}

=============================================================================
